---------------------------- MODULE Spec2Model ----------------------------
(***************************************************************************)
(* A model of the SYS_ERRORS subsystem (deksden/sys-errors).               *)
(*                                                                         *)
(* Modelled sources:                                                       *)
(*   src/src/errors/errors.js:1-226    errors.js 0.1.5: formatMessage,     *)
(*                                     validateDefinition, createError and *)
(*                                     checkErrorChain                     *)
(*   src/src/errors/errors.js:228-396  system-error.js 0.2.0: the private  *)
(*                                     formatMessage and class SystemError *)
(*   src/src/errors/codes.js:14-59     codes.js 0.1.3: ERROR_CODES         *)
(*                                                                         *)
(* JavaScript values are tagged records (field t names the type).  A       *)
(* JavaScript string is a sequence of one-character strings, so that the   *)
(* regular expressions of the code (/{(\w+)}/g, /^[A-Z][A-Z0-9_]*$/) are   *)
(* modelled by what they do on the characters.  An object is a function    *)
(* from property names to values.  Error objects live on a heap and are    *)
(* named by their index, so that "the same error" is the same index.       *)
(***************************************************************************)
EXTENDS Integers, Sequences, FiniteSets, TLC

VARIABLES
    heap,   \* the error objects created so far, in creation order
    env,    \* process.env.NODE_ENV
    last    \* the last call of the API: its arguments and its outcome

vars == <<heap, env, last>>

(***************************************************************************)
(* Texts.  Each field spells one string literal.                          *)
(***************************************************************************)
\* codes.js:14-59, the string literals of ERROR_CODES
CodesText ==
    [\* 'SYS_INIT_FAILED'
     SYS_INIT_FAILED |->
        <<"S", "Y", "S", "_", "I", "N", "I", "T", "_", "F", "A", "I", "L", "E", "D">>,
     \* 'System initialization failed: {reason}'
     MSG_INIT_FAILED |->
        <<"S", "y", "s", "t", "e", "m", " ", "i", "n", "i", "t", "i", "a", "l", "i", "z", "a", "t",
          "i", "o", "n", " ", "f", "a", "i", "l", "e", "d", ":", " ", "{", "r", "e", "a", "s", "o",
          "n", "}">>,
     \* 'docs/errors/system.md#initialization-failed'
     DOCS_INIT_FAILED |->
        <<"d", "o", "c", "s", "/", "e", "r", "r", "o", "r", "s", "/", "s", "y", "s", "t", "e", "m",
          ".", "m", "d", "#", "i", "n", "i", "t", "i", "a", "l", "i", "z", "a", "t", "i", "o", "n",
          "-", "f", "a", "i", "l", "e", "d">>,
     \* 'SYS_UNEXPECTED'
     SYS_UNEXPECTED |->
        <<"S", "Y", "S", "_", "U", "N", "E", "X", "P", "E", "C", "T", "E", "D">>,
     \* 'Unexpected error occurred: {reason}'
     MSG_UNEXPECTED |->
        <<"U", "n", "e", "x", "p", "e", "c", "t", "e", "d", " ", "e", "r", "r", "o", "r", " ", "o",
          "c", "c", "u", "r", "r", "e", "d", ":", " ", "{", "r", "e", "a", "s", "o", "n", "}">>,
     \* 'docs/errors/system.md#unexpected'
     DOCS_UNEXPECTED |->
        <<"d", "o", "c", "s", "/", "e", "r", "r", "o", "r", "s", "/", "s", "y", "s", "t", "e", "m",
          ".", "m", "d", "#", "u", "n", "e", "x", "p", "e", "c", "t", "e", "d">>,
     \* 'SYS_VALIDATION_FAILED'
     SYS_VALIDATION_FAILED |->
        <<"S", "Y", "S", "_", "V", "A", "L", "I", "D", "A", "T", "I", "O", "N", "_", "F", "A", "I",
          "L", "E", "D">>,
     \* 'Validation failed: {reason}. Problems: {problemsText}'
     MSG_VALIDATION_FAILED |->
        <<"V", "a", "l", "i", "d", "a", "t", "i", "o", "n", " ", "f", "a", "i", "l", "e", "d", ":",
          " ", "{", "r", "e", "a", "s", "o", "n", "}", ".", " ", "P", "r", "o", "b", "l", "e", "m",
          "s", ":", " ", "{", "p", "r", "o", "b", "l", "e", "m", "s", "T", "e", "x", "t", "}">>,
     \* 'docs/errors/system.md#validation-failed'
     DOCS_VALIDATION_FAILED |->
        <<"d", "o", "c", "s", "/", "e", "r", "r", "o", "r", "s", "/", "s", "y", "s", "t", "e", "m",
          ".", "m", "d", "#", "v", "a", "l", "i", "d", "a", "t", "i", "o", "n", "-", "f", "a", "i",
          "l", "e", "d">>,
     \* 'SYS_NOT_IMPLEMENTED'
     SYS_NOT_IMPLEMENTED |->
        <<"S", "Y", "S", "_", "N", "O", "T", "_", "I", "M", "P", "L", "E", "M", "E", "N", "T", "E",
          "D">>,
     \* 'Feature not implemented: {feature}'
     MSG_NOT_IMPLEMENTED |->
        <<"F", "e", "a", "t", "u", "r", "e", " ", "n", "o", "t", " ", "i", "m", "p", "l", "e", "m",
          "e", "n", "t", "e", "d", ":", " ", "{", "f", "e", "a", "t", "u", "r", "e", "}">>,
     \* 'docs/errors/system.md#not-implemented'
     DOCS_NOT_IMPLEMENTED |->
        <<"d", "o", "c", "s", "/", "e", "r", "r", "o", "r", "s", "/", "s", "y", "s", "t", "e", "m",
          ".", "m", "d", "#", "n", "o", "t", "-", "i", "m", "p", "l", "e", "m", "e", "n", "t", "e",
          "d">>,
     \* 'SYS_INVALID_ARGUMENT'
     SYS_INVALID_ARGUMENT |->
        <<"S", "Y", "S", "_", "I", "N", "V", "A", "L", "I", "D", "_", "A", "R", "G", "U", "M", "E",
          "N", "T">>,
     \* 'Invalid argument {name}: {reason}'
     MSG_INVALID_ARGUMENT |->
        <<"I", "n", "v", "a", "l", "i", "d", " ", "a", "r", "g", "u", "m", "e", "n", "t", " ", "{",
          "n", "a", "m", "e", "}", ":", " ", "{", "r", "e", "a", "s", "o", "n", "}">>,
     \* 'docs/errors/system.md#invalid-argument'
     DOCS_INVALID_ARGUMENT |->
        <<"d", "o", "c", "s", "/", "e", "r", "r", "o", "r", "s", "/", "s", "y", "s", "t", "e", "m",
          ".", "m", "d", "#", "i", "n", "v", "a", "l", "i", "d", "-", "a", "r", "g", "u", "m", "e",
          "n", "t">>,
     \* 'system'
     system |->
        <<"s", "y", "s", "t", "e", "m">>]

\* errors.js:86-331, the string literals of validateDefinition, createError
\* and the constructor, and the names of the classes
ErrorsText ==
    [\* 'Missing error code'  (errors.js:90)
     MissingCode |->
        <<"M", "i", "s", "s", "i", "n", "g", " ", "e", "r", "r", "o", "r", " ", "c", "o", "d", "e">>,
     \* 'Missing error message'  (errors.js:93)
     MissingMessage |->
        <<"M", "i", "s", "s", "i", "n", "g", " ", "e", "r", "r", "o", "r", " ", "m", "e", "s", "s",
          "a", "g", "e">>,
     \* 'Invalid error code format'  (errors.js:96)
     InvalidCodeFormat |->
        <<"I", "n", "v", "a", "l", "i", "d", " ", "e", "r", "r", "o", "r", " ", "c", "o", "d", "e",
          " ", "f", "o", "r", "m", "a", "t">>,
     \* 'Invalid error definition'  (errors.js:132)
     InvalidDefinition |->
        <<"I", "n", "v", "a", "l", "i", "d", " ", "e", "r", "r", "o", "r", " ", "d", "e", "f", "i",
          "n", "i", "t", "i", "o", "n">>,
     \* ', '  (errors.js:134, errors.js:320)
     CommaSpace |->
        <<",", " ">>,
     \* 'Failed to create system error'  (errors.js:153)
     FailedToCreate |->
        <<"F", "a", "i", "l", "e", "d", " ", "t", "o", " ", "c", "r", "e", "a", "t", "e", " ", "s",
          "y", "s", "t", "e", "m", " ", "e", "r", "r", "o", "r">>,
     \* 'SystemError constructor: Invalid or incomplete error definition passed.'  (errors.js:291)
     CtorInvalid |->
        <<"S", "y", "s", "t", "e", "m", "E", "r", "r", "o", "r", " ", "c", "o", "n", "s", "t", "r",
          "u", "c", "t", "o", "r", ":", " ", "I", "n", "v", "a", "l", "i", "d", " ", "o", "r", " ",
          "i", "n", "c", "o", "m", "p", "l", "e", "t", "e", " ", "e", "r", "r", "o", "r", " ", "d",
          "e", "f", "i", "n", "i", "t", "i", "o", "n", " ", "p", "a", "s", "s", "e", "d", ".">>,
     \* 'unknown'  (errors.js:306)
     unknown |->
        <<"u", "n", "k", "n", "o", "w", "n">>,
     \* 'SystemError ['  (errors.js:320)
     CtorMissing1 |->
        <<"S", "y", "s", "t", "e", "m", "E", "r", "r", "o", "r", " ", "[">>,
     \* ']: Missing required context keys: '  (errors.js:320)
     CtorMissing2 |->
        <<"]", ":", " ", "M", "i", "s", "s", "i", "n", "g", " ", "r", "e", "q", "u", "i", "r", "e",
          "d", " ", "c", "o", "n", "t", "e", "x", "t", " ", "k", "e", "y", "s", ":", " ">>,
     \* '. Provided context: '  (errors.js:320)
     CtorMissing3 |->
        <<".", " ", "P", "r", "o", "v", "i", "d", "e", "d", " ", "c", "o", "n", "t", "e", "x", "t",
          ":", " ">>,
     \* 'SystemError'  (errors.js:266, the class name)
     SystemError |->
        <<"S", "y", "s", "t", "e", "m", "E", "r", "r", "o", "r">>,
     \* 'Error'  (the built-in class name)
     Error |->
        <<"E", "r", "r", "o", "r">>,
     \* 'TypeError'  (the built-in class name)
     TypeError |->
        <<"T", "y", "p", "e", "E", "r", "r", "o", "r">>,
     \* ' ['  (errors.js:341)
     FormatOpen |->
        <<" ", "[">>,
     \* ']: '  (errors.js:341)
     FormatClose |->
        <<"]", ":", " ">>,
     \* '\n  Docs: '  (errors.js:344)
     FormatDocs |->
        <<"\n", " ", " ", "D", "o", "c", "s", ":", " ">>,
     \* '\n  Caused by: '  (errors.js:349)
     FormatCausedBy |->
        <<"\n", " ", " ", "C", "a", "u", "s", "e", "d", " ", "b", "y", ":", " ">>,
     \* ': '  (errors.js:349)
     ColonSpace |->
        <<":", " ">>]

\* The texts the JavaScript runtime produces
RuntimeText ==
    [\* 'Cannot read properties of '  (TypeError of a property read on null or undefined)
     CannotRead1 |->
        <<"C", "a", "n", "n", "o", "t", " ", "r", "e", "a", "d", " ", "p", "r", "o", "p", "e", "r",
          "t", "i", "e", "s", " ", "o", "f", " ">>,
     \* " (reading '"
     CannotRead2 |->
        <<" ", "(", "r", "e", "a", "d", "i", "n", "g", " ", "'">>,
     \* "')"
     CannotRead3 |->
        <<"'", ")">>,
     \* 'template.replace is not a function'  (TypeError of errors.js:66 on a non-string)
     NotAFunction |->
        <<"t", "e", "m", "p", "l", "a", "t", "e", ".", "r", "e", "p", "l", "a", "c", "e", " ", "i",
          "s", " ", "n", "o", "t", " ", "a", " ", "f", "u", "n", "c", "t", "i", "o", "n">>,
     \* 'undefined'
     undefined |->
        <<"u", "n", "d", "e", "f", "i", "n", "e", "d">>,
     \* 'null'
     null |->
        <<"n", "u", "l", "l">>,
     \* 'true'
     true |->
        <<"t", "r", "u", "e">>,
     \* 'false'
     false |->
        <<"f", "a", "l", "s", "e">>,
     \* '[object Object]'  (Object.prototype.toString)
     ObjectObject |->
        <<"[", "o", "b", "j", "e", "c", "t", " ", "O", "b", "j", "e", "c", "t", "]">>,
     \* ','  (Array.prototype.toString joins with a comma)
     Comma |->
        <<",">>,
     \* the text of a call stack, error.stack: the engine writes it, and the
     \* model keeps one text for every stack
     StackTrace |->
        <<"s", "t", "a", "c", "k">>,
     \* 'RangeError'  (the error of the engine when the call stack is full)
     RangeError |->
        <<"R", "a", "n", "g", "e", "E", "r", "r", "o", "r">>,
     \* 'Maximum call stack size exceeded'
     MaximumCallStack |->
        <<"M", "a", "x", "i", "m", "u", "m", " ", "c", "a", "l", "l", " ", "s", "t", "a", "c", "k", " ", "s", "i", "z", "e", " ", "e", "x", "c", "e", "e", "d", "e", "d">>]

\* The texts that errors.test.js expects of the errors (lines 131-295)
ExpectedText ==
    [\* 'Invalid error definition provided to createError'  (errors.test.js:171)
     InvalidDefinitionProvided |->
        <<"I", "n", "v", "a", "l", "i", "d", " ", "e", "r", "r", "o", "r", " ", "d", "e", "f", "i",
          "n", "i", "t", "i", "o", "n", " ", "p", "r", "o", "v", "i", "d", "e", "d", " ", "t", "o",
          " ", "c", "r", "e", "a", "t", "e", "E", "r", "r", "o", "r">>,
     \* 'Definition is missing or invalid.'  (errors.test.js:131)
     DefinitionMissing |->
        <<"D", "e", "f", "i", "n", "i", "t", "i", "o", "n", " ", "i", "s", " ", "m", "i", "s", "s",
          "i", "n", "g", " ", "o", "r", " ", "i", "n", "v", "a", "l", "i", "d", ".">>,
     \* 'expectedChain must be an array'  (errors.test.js:295)
     MustBeArray |->
        <<"e", "x", "p", "e", "c", "t", "e", "d", "C", "h", "a", "i", "n", " ", "m", "u", "s", "t",
          " ", "b", "e", " ", "a", "n", " ", "a", "r", "r", "a", "y">>,
     \* ', but error chain ended at level '  (errors.test.js:282)
     EndedAtLevel |->
        <<",", " ", "b", "u", "t", " ", "e", "r", "r", "o", "r", " ", "c", "h", "a", "i", "n", " ",
          "e", "n", "d", "e", "d", " ", "a", "t", " ", "l", "e", "v", "e", "l", " ">>,
     \* 'Expected '  (errors.test.js:282)
     ExpectedLevels |->
        <<"E", "x", "p", "e", "c", "t", "e", "d", " ">>,
     \* ' levels'  (errors.test.js:282)
     Levels |->
        <<" ", "l", "e", "v", "e", "l", "s">>,
     \* 'more levels than expected'  (errors.test.js:290)
     MoreLevels |->
        <<"m", "o", "r", "e", " ", "l", "e", "v", "e", "l", "s", " ", "t", "h", "a", "n", " ", "e",
          "x", "p", "e", "c", "t", "e", "d">>]

\* The string literals of the tests, used as inputs
InputText ==
    [\* 'Only message'  (errors.test.js:167)
     OnlyMessage |->
        <<"O", "n", "l", "y", " ", "m", "e", "s", "s", "a", "g", "e">>,
     \* 'Original Cause'  (errors.test.js:151)
     OriginalCause |->
        <<"O", "r", "i", "g", "i", "n", "a", "l", " ", "C", "a", "u", "s", "e">>,
     \* 'Test Feature'  (errors.test.js:150)
     TestFeature |->
        <<"T", "e", "s", "t", " ", "F", "e", "a", "t", "u", "r", "e">>,
     \* 'Missing problems key'  (errors.test.js:182)
     MissingProblemsKey |->
        <<"M", "i", "s", "s", "i", "n", "g", " ", "p", "r", "o", "b", "l", "e", "m", "s", " ", "k",
          "e", "y">>,
     \* 'problems missing'  (errors.test.js:182)
     ProblemsMissing |->
        <<"p", "r", "o", "b", "l", "e", "m", "s", " ", "m", "i", "s", "s", "i", "n", "g">>,
     \* 'p1'  (errors.test.js:220)
     p1 |->
        <<"p", "1">>,
     \* 'invalid-code'  (errors.test.js:117)
     invalid_code |->
        <<"i", "n", "v", "a", "l", "i", "d", "-", "c", "o", "d", "e">>,
     \* 'Test Message'  (errors.test.js:117)
     TestMessage |->
        <<"T", "e", "s", "t", " ", "M", "e", "s", "s", "a", "g", "e">>,
     \* 'Template'  (errors.test.js:89)
     Template |->
        <<"T", "e", "m", "p", "l", "a", "t", "e">>,
     \* 'User: {userId}, Action: {action}'  (errors.test.js:60)
     UserAction |->
        <<"U", "s", "e", "r", ":", " ", "{", "u", "s", "e", "r", "I", "d", "}", ",", " ", "A", "c",
          "t", "i", "o", "n", ":", " ", "{", "a", "c", "t", "i", "o", "n", "}">>,
     \* 'Values: null={valNull}, undef={valUndef}'  (errors.test.js:69)
     Values |->
        <<"V", "a", "l", "u", "e", "s", ":", " ", "n", "u", "l", "l", "=", "{", "v", "a", "l", "N",
          "u", "l", "l", "}", ",", " ", "u", "n", "d", "e", "f", "=", "{", "v", "a", "l", "U", "n",
          "d", "e", "f", "}">>,
     \* 'x'
     x |->
        <<"x">>]

\* system-error.d.ts:319-326, the string literals of the definition the tests of
\* the constructor use
TestErrorText ==
    [\* 'TEST_ERROR'  (system-error.d.ts:320)
     TEST_ERROR |->
        <<"T", "E", "S", "T", "_", "E", "R", "R", "O", "R">>,
     \* 'Error: {value}'  (system-error.d.ts:321)
     ErrorValue |->
        <<"E", "r", "r", "o", "r", ":", " ", "{", "v", "a", "l", "u", "e", "}">>,
     \* 'test'  (system-error.d.ts:322)
     test |->
        <<"t", "e", "s", "t">>,
     \* 'docs/test.md'  (system-error.d.ts:325)
     DocsTest |->
        <<"d", "o", "c", "s", "/", "t", "e", "s", "t", ".", "m", "d">>]

\* errors.js:176-222, the string literals of checkErrorChain
ChainText ==
    [\* 'Unexpected error code at chain position '  (errors.js:185)
     ChainCode |->
        <<"U", "n", "e", "x", "p", "e", "c", "t", "e", "d", " ", "e", "r", "r", "o", "r", " ", "c",
          "o", "d", "e", " ", "a", "t", " ", "c", "h", "a", "i", "n", " ", "p", "o", "s", "i", "t",
          "i", "o", "n", " ">>,
     \* 'Unexpected error type at chain position '  (errors.js:190)
     ChainType |->
        <<"U", "n", "e", "x", "p", "e", "c", "t", "e", "d", " ", "e", "r", "r", "o", "r", " ", "t",
          "y", "p", "e", " ", "a", "t", " ", "c", "h", "a", "i", "n", " ", "p", "o", "s", "i", "t",
          "i", "o", "n", " ">>,
     \* '. Expected: '  (errors.js:185, errors.js:190)
     ChainExpected |->
        <<".", " ", "E", "x", "p", "e", "c", "t", "e", "d", ":", " ">>,
     \* ', got: '  (errors.js:185, errors.js:190)
     ChainGot |->
        <<",", " ", "g", "o", "t", ":", " ">>,
     \* ', "'  (errors.js:185, errors.js:190)
     ChainQuote |->
        <<",", " ", "\"">>,
     \* '"'  (errors.js:185)
     Quote |->
        <<"\"">>,
     \* 'Error at chain position '  (errors.js:197)
     ChainAt |->
        <<"E", "r", "r", "o", "r", " ", "a", "t", " ", "c", "h", "a", "i", "n", " ", "p", "o", "s",
          "i", "t", "i", "o", "n", " ">>,
     \* ' does not have a message property\nError: '  (errors.js:197-198)
     ChainNoMessage |->
        <<" ", "d", "o", "e", "s", " ", "n", "o", "t", " ", "h", "a", "v", "e", " ", "a", " ", "m",
          "e", "s", "s", "a", "g", "e", " ", "p", "r", "o", "p", "e", "r", "t", "y", "\n", "E",
          "r", "r", "o", "r", ":", " ">>,
     \* 'Error message at chain position '  (errors.js:206, errors.js:212)
     ChainMessageAt |->
        <<"E", "r", "r", "o", "r", " ", "m", "e", "s", "s", "a", "g", "e", " ", "a", "t", " ", "c",
          "h", "a", "i", "n", " ", "p", "o", "s", "i", "t", "i", "o", "n", " ">>,
     \* ' does not contain keyword: '  (errors.js:206)
     ChainKeyword |->
        <<" ", "d", "o", "e", "s", " ", "n", "o", "t", " ", "c", "o", "n", "t", "a", "i", "n", " ",
          "k", "e", "y", "w", "o", "r", "d", ":", " ">>,
     \* ' does not contain: '  (errors.js:212)
     ChainContain |->
        <<" ", "d", "o", "e", "s", " ", "n", "o", "t", " ", "c", "o", "n", "t", "a", "i", "n", ":",
          " ">>,
     \* '\nMessage: "'  (errors.js:206, errors.js:212)
     ChainMessage |->
        <<"\n", "M", "e", "s", "s", "a", "g", "e", ":", " ", "\"">>]

\* errors.test.js:217-280, the string literals of the tests of checkErrorChain,
\* used as inputs
ChainInputText ==
    [\* 'arg1'  (errors.test.js:216)
     arg1 |->
        <<"a", "r", "g", "1">>,
     \* 'is null'  (errors.test.js:216)
     IsNull |->
        <<"i", "s", " ", "n", "u", "l", "l">>,
     \* 'Outer fail'  (errors.test.js:219)
     OuterFail |->
        <<"O", "u", "t", "e", "r", " ", "f", "a", "i", "l">>,
     \* 'Problem 1'  (errors.test.js:219)
     Problem1 |->
        <<"P", "r", "o", "b", "l", "e", "m", " ", "1">>,
     \* 'argument'  (errors.test.js:227)
     argument |->
        <<"a", "r", "g", "u", "m", "e", "n", "t">>,
     \* 'NonExistentWord'  (errors.test.js:262)
     NonExistentWord |->
        <<"N", "o", "n", "E", "x", "i", "s", "t", "e", "n", "t", "W", "o", "r", "d">>,
     \* 'SOME_THIRD_LEVEL_ERROR'  (errors.test.js:280)
     SOME_THIRD |->
        <<"S", "O", "M", "E", "_", "T", "H", "I", "R", "D", "_", "L", "E", "V", "E", "L", "_", "E",
          "R", "R", "O", "R">>,
     \* 'OUTER'  (a fragment in another case than the message)
     OUTER |->
        <<"O", "U", "T", "E", "R">>,
     \* 'Original type error'  (errors.test.js:245)
     OriginalTypeError |->
        <<"O", "r", "i", "g", "i", "n", "a", "l", " ", "t", "y", "p", "e", " ", "e", "r", "r", "o",
          "r">>,
     \* 'Wrapping TypeError'  (errors.test.js:248)
     WrappingTypeError |->
        <<"W", "r", "a", "p", "p", "i", "n", "g", " ", "T", "y", "p", "e", "E", "r", "r", "o", "r">>]
(***************************************************************************)
(* Characters.                                                             *)
(***************************************************************************)
Upper ==
    {"A", "B", "C", "D", "E", "F", "G", "H", "I", "J", "K", "L", "M",
     "N", "O", "P", "Q", "R", "S", "T", "U", "V", "W", "X", "Y", "Z"}

Lower ==
    {"a", "b", "c", "d", "e", "f", "g", "h", "i", "j", "k", "l", "m",
     "n", "o", "p", "q", "r", "s", "t", "u", "v", "w", "x", "y", "z"}

Digit ==
    {"0", "1", "2", "3", "4", "5", "6", "7", "8", "9"}

\* The class \w of the regular expression at errors.js:66 and errors.js:250.
WordChar ==
    Upper \cup Lower \cup Digit \cup {"_"}

DigitChars ==
    <<"0", "1", "2", "3", "4", "5", "6", "7", "8", "9">>

(***************************************************************************)
(* JavaScript values.                                                      *)
(***************************************************************************)
Undefined == [t |-> "undefined"]

Null == [t |-> "null"]

Str(s) == [t |-> "string", v |-> s]

Num(n) == [t |-> "number", v |-> n]

Bool(b) == [t |-> "boolean", v |-> b]

Arr(a) == [t |-> "array", v |-> a]

Obj(f) == [t |-> "object", v |-> f]

\* An Error object (an instance of Error or of a subclass): its heap index.
Ref(i) == [t |-> "error", v |-> i]

\* A value thrown at the caller; e is the error object itself.
Exc(e) == [t |-> "exception", v |-> e]

\* The object literal {}.
EmptyObject == Obj([n \in {} |-> Undefined])

IsNullish(x) == x.t \in {"undefined", "null"}

\* typeof x === 'string'
IsString(x) == x.t = "string"

\* Array.isArray(x)
IsArray(x) == x.t = "array"

\* An instanceof Error that takes every value given for an error
IsErrorIfGiven(x) == ~IsNullish(x)

\* x instanceof Error
IsError(x) == x.t = "error"

\* ToBoolean: the truthiness tested by !x, x && y, x || y.
Truthy(x) ==
    CASE x.t \in {"undefined", "null"} -> FALSE
      [] x.t = "string" -> x.v # << >>
      [] x.t = "number" -> x.v # 0
      [] x.t = "boolean" -> x.v
      [] OTHER -> TRUE

\* An x || y that yields x whatever it is
OrElseFirst(x, y) == x

\* x || y
OrElse(x, y) == IF Truthy(x) THEN x ELSE y

\* x ?? y
Coalesce(x, y) == IF IsNullish(x) THEN y ELSE x

\* A parameter with a default value (f (p = d)): the default replaces undefined only.
Default(x, d) == IF x.t = "undefined" THEN d ELSE x

\* x?.name, and x.name on an x that is neither null nor undefined: only
\* plain objects of the model carry properties.
Get(x, name) ==
    IF x.t = "object" /\ name \in DOMAIN x.v THEN x.v[name] ELSE Undefined

\* The outcome of a call: a value returned, or an error thrown.
Returned(x) == [out |-> "returned", val |-> x]

Threw(e) == [out |-> "threw", val |-> Exc(e)]

\* new Error(message), new TypeError(message): the object built.
ErrorObject(cls, message) ==
    [cls |-> cls,
     props |-> [name |-> Str(IF cls = "TypeError" THEN ErrorsText.TypeError ELSE ErrorsText.Error),
                message |-> Str(message),
                stack |-> Str(RuntimeText.StackTrace)]]

\* The TypeError of reading property `key` of null or of undefined.
CannotRead(x, key) ==
    ErrorObject("TypeError",
        RuntimeText.CannotRead1 \o (IF x.t = "null" THEN RuntimeText.null ELSE RuntimeText.undefined)
            \o RuntimeText.CannotRead2 \o key \o RuntimeText.CannotRead3)

(***************************************************************************)
(* Property names.  A placeholder {key} of a template and an entry of      *)
(* contextKeys name a property by its characters.                          *)
(***************************************************************************)
Spell ==
    [reason |-> <<"r", "e", "a", "s", "o", "n">>,
     problems |-> <<"p", "r", "o", "b", "l", "e", "m", "s">>,
     problemsText |-> <<"p", "r", "o", "b", "l", "e", "m", "s", "T", "e", "x", "t">>,
     feature |-> <<"f", "e", "a", "t", "u", "r", "e">>,
     name |-> <<"n", "a", "m", "e">>,
     value |-> <<"v", "a", "l", "u", "e">>,
     userId |-> <<"u", "s", "e", "r", "I", "d">>,
     action |-> <<"a", "c", "t", "i", "o", "n">>,
     valNull |-> <<"v", "a", "l", "N", "u", "l", "l">>,
     valUndef |-> <<"v", "a", "l", "U", "n", "d", "e", "f">>,
     k |-> <<"k">>,
     j |-> <<"j">>,
     length |-> <<"l", "e", "n", "g", "t", "h">>,
     code |-> <<"c", "o", "d", "e">>,
     message |-> <<"m", "e", "s", "s", "a", "g", "e">>,
     msg |-> <<"m", "s", "g">>,
     subsystem |-> <<"s", "u", "b", "s", "y", "s", "t", "e", "m">>,
     context |-> <<"c", "o", "n", "t", "e", "x", "t">>,
     recoverable |-> <<"r", "e", "c", "o", "v", "e", "r", "a", "b", "l", "e">>,
     docs |-> <<"d", "o", "c", "s">>,
     original |-> <<"o", "r", "i", "g", "i", "n", "a", "l">>,
     stack |-> <<"s", "t", "a", "c", "k">>,
     strict |-> <<"s", "t", "r", "i", "c", "t">>,
     replace |-> <<"r", "e", "p", "l", "a", "c", "e">>,
     SYSTEM |-> <<"S", "Y", "S", "T", "E", "M">>,
     SYS |-> <<"S", "Y", "S">>,
     UNEXPECTED |-> <<"U", "N", "E", "X", "P", "E", "C", "T", "E", "D">>,
     VALIDATION_FAILED |-> <<"V", "A", "L", "I", "D", "A", "T", "I", "O", "N", "_",
                             "F", "A", "I", "L", "E", "D">>]

\* The order in which the object literals of the code and of the inputs list
\* their properties (JSON.stringify writes them in insertion order).
KeyOrder ==
    <<"name", "code", "message", "msg", "subsystem", "context", "recoverable",
      "docs", "stack", "original", "reason", "problems", "problemsText", "feature",
      "value", "userId", "action", "valNull", "valUndef", "k", "j">>

\* The properties of object o that the characters `key` name.
Named(o, key) ==
    IF o.t = "object"
    THEN {n \in DOMAIN o.v : n \in DOMAIN Spell /\ Spell[n] = key}
    ELSE {}

\* key in o
HasKey(o, key) == Named(o, key) # {}

\* o[key], and o?.[key] (errors.js:251), on an o that is not null or undefined
Lookup(o, key) ==
    IF HasKey(o, key) THEN o.v[CHOOSE n \in Named(o, key) : TRUE] ELSE Undefined

(***************************************************************************)
(* Conversions to text.                                                    *)
(***************************************************************************)
RECURSIVE Join(_, _)
\* Array.prototype.join on an array of texts
Join(texts, sep) ==
    IF texts = << >> THEN << >>
    ELSE IF Len(texts) = 1 THEN texts[1]
    ELSE texts[1] \o sep \o Join(Tail(texts), sep)

RECURSIVE NatText(_)
NatText(n) ==
    IF n < 10 THEN <<DigitChars[n + 1]>>
    ELSE NatText(n \div 10) \o <<DigitChars[(n % 10) + 1]>>

\* Number.prototype.toString on an integer
NumText(n) == IF n < 0 THEN <<"-">> \o NatText(0 - n) ELSE NatText(n)

RECURSIVE toString(_)
\* value.toString() of a value that is neither null nor undefined
\* (Array.prototype.toString writes null and undefined elements as empty).
toString(x) ==
    CASE x.t = "string" -> x.v
      [] x.t = "number" -> NumText(x.v)
      [] x.t = "boolean" -> IF x.v THEN RuntimeText.true ELSE RuntimeText.false
      [] x.t = "array" ->
            Join([i \in 1..Len(x.v) |->
                    IF IsNullish(x.v[i]) THEN << >> ELSE toString(x.v[i])],
                 RuntimeText.Comma)
      [] OTHER -> RuntimeText.ObjectObject

RECURSIVE JsonText(_)
\* JSON.stringify of a context: strings (of characters that need no
\* escape), integers, booleans, null, arrays and plain objects; a property
\* whose value is undefined is left out, an undefined element is null.
JsonText(x) ==
    CASE x.t = "string" -> <<"\"">> \o x.v \o <<"\"">>
      [] x.t = "number" -> NumText(x.v)
      [] x.t = "boolean" -> IF x.v THEN RuntimeText.true ELSE RuntimeText.false
      [] x.t \in {"null", "undefined"} -> RuntimeText.null
      [] x.t = "array" ->
            <<"[">> \o Join([i \in 1..Len(x.v) |-> JsonText(x.v[i])], RuntimeText.Comma)
                \o <<"]">>
      [] x.t = "object" ->
            LET keys == SelectSeq(KeyOrder,
                            LAMBDA n : n \in DOMAIN x.v /\ x.v[n].t # "undefined")
            IN  <<"{">> \o Join([i \in 1..Len(keys) |->
                                   <<"\"">> \o Spell[keys[i]] \o <<"\"", ":">>
                                       \o JsonText(x.v[keys[i]])],
                                RuntimeText.Comma)
                    \o <<"}">>
      [] OTHER -> <<"{", "}">>

(***************************************************************************)
(* String.prototype.replace with /{(\w+)}/g (errors.js:66, errors.js:250). *)
(***************************************************************************)
RECURSIVE WordEnd(_, _)
\* The index after the longest run of \w characters of s that starts at i.
WordEnd(s, i) ==
    IF i <= Len(s) /\ s[i] \in WordChar THEN WordEnd(s, i + 1) ELSE i

\* The index after the match of /{(\w+)}/ that starts at i, or 0 when there is
\* none: "{", one or more \w (greedy; "}" is no \w), "}".
MatchEnd(s, i) ==
    IF s[i] # "{" THEN 0
    ELSE LET j == WordEnd(s, i + 1)
         IN  IF j > i + 1 /\ j <= Len(s) /\ s[j] = "}" THEN j + 1 ELSE 0

RECURSIVE Segments(_, _)
\* s from index i on, cut into the pieces replace() works on, left to right:
\* the matches (ph: the whole match `text` and its group `key`) and, between
\* them, the characters that replace() copies.
Segments(s, i) ==
    IF i > Len(s) THEN << >>
    ELSE LET e == MatchEnd(s, i)
         IN  IF e = 0
             THEN <<[ph |-> FALSE, text |-> <<s[i]>>, key |-> << >>]>>
                      \o Segments(s, i + 1)
             ELSE <<[ph |-> TRUE, text |-> SubSeq(s, i, e - 1),
                     key |-> SubSeq(s, i + 1, e - 2)]>>
                      \o Segments(s, e)

\* The placeholders of template s, in order.
Placeholders(s) == SelectSeq(Segments(s, 1), LAMBDA g : g.ph)

(***************************************************************************)
(* errors.js:62-73, the exported formatMessage (errors.js 0.1.5).          *)
(***************************************************************************)
\* The callback of replace(), errors.js:66-72, on a context that is not null:
\* g is the match.
FormatMessageCallback(g, context) ==
    LET value == Lookup(context, g.key)
    IN  IF value.t = "undefined" THEN g.text
        ELSE IF IsNullish(value) THEN g.text ELSE toString(value)

RECURSIVE FormatMessageReplace(_, _)
\* template.replace(/{(\w+)}/g, callback) on the pieces of the template
FormatMessageReplace(segs, context) ==
    IF segs = << >> THEN << >>
    ELSE (IF segs[1].ph THEN FormatMessageCallback(segs[1], context) ELSE segs[1].text)
            \o FormatMessageReplace(Tail(segs), context)

\* formatMessage with the result of replace() scanned once more for placeholders
formatMessageRescanned(template, context0) ==
    LET context == Default(context0, EmptyObject)
    IN  IF template.t = "undefined" THEN Returned(Str(<< >>))
        ELSE IF template.t = "null" THEN Threw(CannotRead(template, Spell.replace))
        ELSE IF template.t # "string"
             THEN Threw(ErrorObject("TypeError", RuntimeText.NotAFunction))
        ELSE LET phs == Placeholders(template.v)
             IN  IF context.t = "null" /\ phs # << >>
                 THEN Threw(CannotRead(context, phs[1].key))
                 ELSE LET once == FormatMessageReplace(Segments(template.v, 1), context)
                      IN  Returned(Str(FormatMessageReplace(Segments(once, 1), context)))

formatMessage(template, context0) ==
    LET context == Default(context0, EmptyObject)
    IN  IF template.t = "undefined" THEN Returned(Str(<< >>))
        ELSE IF template.t = "null" THEN Threw(CannotRead(template, Spell.replace))
        ELSE IF template.t # "string"
             THEN Threw(ErrorObject("TypeError", RuntimeText.NotAFunction))
        ELSE LET phs == Placeholders(template.v)
             IN  IF context.t = "null" /\ phs # << >>
                 THEN Threw(CannotRead(context, phs[1].key))
                 ELSE Returned(Str(FormatMessageReplace(Segments(template.v, 1),
                                                        context)))

(***************************************************************************)
(* errors.js:244-254, the private formatMessage of system-error.js 0.2.0.  *)
(***************************************************************************)
\* The callback of replace(), errors.js:250-253: context?.[key]
SystemErrorCallback(g, context) ==
    LET value == IF IsNullish(context) THEN Undefined ELSE Lookup(context, g.key)
    IN  IF ~IsNullish(value) THEN toString(value) ELSE g.text

RECURSIVE SystemErrorReplace(_, _)
SystemErrorReplace(segs, context) ==
    IF segs = << >> THEN << >>
    ELSE (IF segs[1].ph THEN SystemErrorCallback(segs[1], context) ELSE segs[1].text)
            \o SystemErrorReplace(Tail(segs), context)

SystemErrorFormatMessage(template, context0) ==
    LET context == Default(context0, EmptyObject)
    IN  IF ~IsString(template) THEN << >>
        ELSE SystemErrorReplace(Segments(template.v, 1), context)

(***************************************************************************)
(* errors.js:86-100, validateDefinition (errors.js 0.1.5).                 *)
(***************************************************************************)
\* /^[A-Z][A-Z0-9_]*$/.test(code): test() works on the text of its argument.
CodePattern(code) ==
    LET s == IF IsNullish(code) THEN (IF code.t = "null" THEN RuntimeText.null ELSE RuntimeText.undefined)
             ELSE toString(code)
    IN  /\ s # << >>
        /\ s[1] \in Upper
        /\ \A i \in 2..Len(s) : s[i] \in Upper \cup Digit \cup {"_"}

validateDefinition(definition) ==
    LET p1 == IF ~Truthy(Get(definition, "code")) THEN <<Str(ErrorsText.MissingCode)>>
              ELSE << >>
        p2 == IF ~Truthy(Get(definition, "message")) THEN <<Str(ErrorsText.MissingMessage)>>
              ELSE << >>
        p3 == IF Truthy(Get(definition, "code")) /\ ~CodePattern(Get(definition, "code"))
              THEN <<Str(ErrorsText.InvalidCodeFormat)>>
              ELSE << >>
    IN  p1 \o p2 \o p3

(***************************************************************************)
(* codes.js:14-59, ERROR_CODES (codes.js 0.1.3).                           *)
(***************************************************************************)
INITIALIZATION_FAILED ==
    Obj([code |-> Str(CodesText.SYS_INIT_FAILED),
         message |-> Str(CodesText.MSG_INIT_FAILED),
         subsystem |-> Str(CodesText.system),
         recoverable |-> Bool(FALSE),
         docs |-> Str(CodesText.DOCS_INIT_FAILED)])

UNEXPECTED ==
    Obj([code |-> Str(CodesText.SYS_UNEXPECTED),
         message |-> Str(CodesText.MSG_UNEXPECTED),
         subsystem |-> Str(CodesText.system),
         recoverable |-> Bool(FALSE),
         docs |-> Str(CodesText.DOCS_UNEXPECTED)])

\* VALIDATION_FAILED with a contextKeys that leaves problemsText out
VALIDATION_FAILED_TwoKeys ==
    Obj([code |-> Str(CodesText.SYS_VALIDATION_FAILED),
         message |-> Str(CodesText.MSG_VALIDATION_FAILED),
         subsystem |-> Str(CodesText.system),
         recoverable |-> Bool(TRUE),
         contextKeys |-> Arr(<<Str(Spell.reason), Str(Spell.problems)>>),
         docs |-> Str(CodesText.DOCS_VALIDATION_FAILED)])

VALIDATION_FAILED ==
    Obj([code |-> Str(CodesText.SYS_VALIDATION_FAILED),
         message |-> Str(CodesText.MSG_VALIDATION_FAILED),
         subsystem |-> Str(CodesText.system),
         recoverable |-> Bool(TRUE),
         contextKeys |-> Arr(<<Str(Spell.reason), Str(Spell.problems),
                               Str(Spell.problemsText)>>),
         docs |-> Str(CodesText.DOCS_VALIDATION_FAILED)])

NOT_IMPLEMENTED ==
    Obj([code |-> Str(CodesText.SYS_NOT_IMPLEMENTED),
         message |-> Str(CodesText.MSG_NOT_IMPLEMENTED),
         subsystem |-> Str(CodesText.system),
         recoverable |-> Bool(FALSE),
         docs |-> Str(CodesText.DOCS_NOT_IMPLEMENTED)])

INVALID_ARGUMENT ==
    Obj([code |-> Str(CodesText.SYS_INVALID_ARGUMENT),
         message |-> Str(CodesText.MSG_INVALID_ARGUMENT),
         subsystem |-> Str(CodesText.system),
         recoverable |-> Bool(TRUE),
         contextKeys |-> Arr(<<Str(Spell.name), Str(Spell.reason)>>),
         docs |-> Str(CodesText.DOCS_INVALID_ARGUMENT)])

ERROR_CODES ==
    Obj([SYS |-> Obj([INITIALIZATION_FAILED |-> INITIALIZATION_FAILED,
                      UNEXPECTED |-> UNEXPECTED,
                      VALIDATION_FAILED |-> VALIDATION_FAILED,
                      NOT_IMPLEMENTED |-> NOT_IMPLEMENTED,
                      INVALID_ARGUMENT |-> INVALID_ARGUMENT])])

\* registry.namespace.name, as an expression of the code: reading a property
\* of undefined throws a TypeError.
ReadCode(registry, namespace, name) ==
    LET ns == Get(registry, namespace)
    IN  IF IsNullish(ns) THEN Threw(CannotRead(ns, Spell[name]))
        ELSE Returned(Get(ns, name))

\* A mode taken from NODE_ENV alone, whatever the options say
StrictOfNodeEnv(options, nodeEnv) == Bool(nodeEnv # "production")

(***************************************************************************)
(* errors.js:284-331, the constructor of SystemError (system-error.js      *)
(* 0.2.0).  The result is the object built, or the error thrown.  The      *)
(* call stack captured at errors.js:326-330 is one text, the same for      *)
(* every error.                                                            *)
(***************************************************************************)
\* errors.js:313: options.strict ?? process.env.NODE_ENV !== 'production'
\* errors.js:123: options?.strict ?? process.env.NODE_ENV !== 'production'
StrictOf(options, nodeEnv) ==
    Coalesce(Get(options, "strict"), Bool(nodeEnv # "production"))

\* A filter that takes a key whose value is null or undefined for missing
MissingKeysNullish(contextKeys, context) ==
    SelectSeq(contextKeys.v,
              LAMBDA key : ~HasKey(context, key.v) \/ IsNullish(Lookup(context, key.v)))

\* errors.js:315: definition.contextKeys.filter(key => !(key in this.context))
MissingKeys(contextKeys, context) ==
    SelectSeq(contextKeys.v, LAMBDA key : ~HasKey(context, key.v))

\* errors.js:294-331, the constructor after its check of the definition
SystemErrorBuild(definition, context0, originalError0, options0, nodeEnv) ==
    LET context == Default(context0, Null)
        originalError == Default(originalError0, Null)
        options == Default(options0, EmptyObject)
        code == Get(definition, "code")
        message == Get(definition, "message")
    IN  LET formattedMessage ==
                SystemErrorFormatMessage(message, OrElse(context, EmptyObject))
            recoverable == Get(definition, "recoverable")
            this == [cls |-> "SystemError",
                     props |->
                        [name |-> Str(ErrorsText.SystemError),
                         message |-> Str(formattedMessage),
                         code |-> code,
                         msg |-> message,
                         subsystem |-> OrElse(Get(definition, "subsystem"),
                                              Str(ErrorsText.unknown)),
                         context |-> OrElse(context, EmptyObject),
                         recoverable |->
                            Bool(~(recoverable.t = "boolean" /\ recoverable.v = FALSE)),
                         original |-> IF IsError(originalError) THEN originalError
                                      ELSE Null,
                         docs |-> Get(definition, "docs"),
                         stack |-> Str(RuntimeText.StackTrace)]]
            contextKeys == Get(definition, "contextKeys")
        IN  IF options.t = "null" THEN Threw(CannotRead(options, Spell.strict))
            ELSE IF /\ Truthy(StrictOf(options, nodeEnv))
                    /\ IsArray(contextKeys)
                    /\ Len(contextKeys.v) > 0
                    /\ Len(MissingKeys(contextKeys, this.props.context)) > 0
            THEN LET missingKeys == MissingKeys(contextKeys, this.props.context)
                 IN  Threw(ErrorObject("Error",
                        ErrorsText.CtorMissing1 \o toString(code) \o ErrorsText.CtorMissing2
                            \o Join([i \in 1..Len(missingKeys) |->
                                        toString(missingKeys[i])], ErrorsText.CommaSpace)
                            \o ErrorsText.CtorMissing3 \o JsonText(this.props.context)))
            ELSE Returned(this)

\* The constructor without the check of errors.js:288-292, as in
\* system-error.js 0.1.1 (errors.js:457-514), which has none.
SystemErrorUnchecked(definition, context0, originalError0, options0, nodeEnv) ==
    SystemErrorBuild(definition, context0, originalError0, options0, nodeEnv)

\* The constructor with a check of the message only
SystemErrorMessageOnly(definition, context0, originalError0, options0, nodeEnv) ==
    IF ~IsString(Get(definition, "message"))
    THEN Threw(ErrorObject("Error", ErrorsText.CtorInvalid))
    ELSE SystemErrorBuild(definition, context0, originalError0, options0, nodeEnv)

SystemError(definition, context0, originalError0, options0, nodeEnv) ==
    IF ~IsString(Get(definition, "code")) \/ ~IsString(Get(definition, "message"))
    THEN Threw(ErrorObject("Error", ErrorsText.CtorInvalid))
    ELSE SystemErrorBuild(definition, context0, originalError0, options0, nodeEnv)

(***************************************************************************)
(* errors.js:119-158, createError (errors.js 0.1.5).  h is the heap at the *)
(* call; the result carries the heap after it.                             *)
(***************************************************************************)
\* A construction that takes the place of the newest object of the heap
NewInPlace(h0, h1, built) ==
    IF built.out = "returned"
    THEN [out |-> "returned", val |-> Ref(Len(h1) + 1),
          heap |-> IF h1 = << >> THEN <<built.val>>
                   ELSE Append([h1 EXCEPT ![Len(h1)] = built.val], built.val)]
    ELSE [out |-> "threw", val |-> built.val, heap |-> h0]

\* The outcome of `return new SystemError(...)`: the object built joins the
\* heap h1 and is returned by reference; an error thrown leaves heap h0.
New(h0, h1, built) ==
    IF built.out = "returned"
    THEN [out |-> "returned", val |-> Ref(Len(h1) + 1), heap |-> Append(h1, built.val)]
    ELSE [out |-> "threw", val |-> built.val, heap |-> h0]

\* errors.js:129-137 with a context that reports the first problem only
ValidationFailedFirstProblem(h, nodeEnv, problems, errorDefinition, originalError) ==
    New(h, h,
        SystemError(VALIDATION_FAILED,
            Obj([reason |-> Str(ErrorsText.InvalidDefinition),
                 problems |-> Arr(<<problems[1]>>),
                 problemsText |-> Str(problems[1].v)]),
            originalError, Undefined, nodeEnv))

\* errors.js:129-137, the branch taken on an invalid definition
ValidationFailed(h, nodeEnv, problems, errorDefinition, originalError) ==
    LET definition == ReadCode(ERROR_CODES, "SYS", "VALIDATION_FAILED")
    IN  IF definition.out = "threw"
        THEN [out |-> "threw", val |-> definition.val, heap |-> h]
        ELSE New(h, h,
                SystemError(definition.val,
                    Obj([reason |-> Str(ErrorsText.InvalidDefinition),
                         problems |-> Arr(problems),
                         problemsText |->
                            Str(Join([i \in 1..Len(problems) |-> problems[i].v],
                                     ErrorsText.CommaSpace))]),
                    originalError, Undefined, nodeEnv))

\* errors.js:148-157, the catch block; error is the object caught
Unexpected(h, nodeEnv, error, errorDefinition, context) ==
    LET definition == ReadCode(ERROR_CODES, "SYSTEM", "UNEXPECTED")
    IN  IF definition.out = "threw"
        THEN [out |-> "threw", val |-> definition.val, heap |-> h]
        ELSE LET h1 == Append(h, error)
             IN  New(h, h1,
                    SystemError(definition.val,
                        Obj([reason |-> OrElse(error.props.message,
                                               Str(ErrorsText.FailedToCreate))]),
                        Ref(Len(h1)), Undefined, nodeEnv))

createError(h, nodeEnv, errorDefinition, context, originalError, options) ==
    LET strict == StrictOf(options, nodeEnv)
        problems == validateDefinition(errorDefinition)
    IN  IF Truthy(strict) /\ Len(problems) > 0
        THEN ValidationFailed(h, nodeEnv, problems, errorDefinition, originalError)
        ELSE LET built == SystemError(errorDefinition, context, originalError,
                                      options, nodeEnv)
             IN  IF built.out = "returned" THEN New(h, h, built)
                 ELSE Unexpected(h, nodeEnv, built.val.v, errorDefinition, context)

(***************************************************************************)
(* The arguments the calls are made with.                                  *)
(***************************************************************************)
\* errors.test.js:167 and :201, a definition with a message and no code
OnlyMessage == Obj([message |-> Str(InputText.OnlyMessage)])

\* a definition with a message, no code, and a required context key
OnlyMessageKeys ==
    Obj([message |-> Str(InputText.OnlyMessage), contextKeys |-> Arr(<<Str(Spell.value)>>)])

\* errors.test.js:117, a code that is not UPPER_SNAKE_CASE
InvalidCode == Obj([code |-> Str(InputText.invalid_code), message |-> Str(InputText.TestMessage)])

\* a definition whose code is the empty string
EmptyCode == Obj([code |-> Str(<< >>), message |-> Str(InputText.TestMessage)])

\* system-error.d.ts:319-326, a definition with every field
TestError ==
    Obj([code |-> Str(TestErrorText.TEST_ERROR),
         message |-> Str(TestErrorText.ErrorValue),
         subsystem |-> Str(TestErrorText.test),
         recoverable |-> Bool(FALSE),
         contextKeys |-> Arr(<<Str(Spell.value)>>),
         docs |-> Str(TestErrorText.DocsTest)])

\* The definition and context arguments of the calls, in pairs.
Arguments ==
    {<<Undefined, Undefined>>,
     <<Null, EmptyObject>>,
     <<Num(42), Undefined>>,
     <<EmptyObject, EmptyObject>>,
     \* errors.test.js:203
     <<OnlyMessage, Undefined>>,
     \* errors.test.js:168
     <<OnlyMessage, EmptyObject>>,
     <<OnlyMessageKeys, EmptyObject>>,
     <<InvalidCode, EmptyObject>>,
     \* a definition of a code and a message only, and no context
     <<InvalidCode, Undefined>>,
     <<Obj([code |-> Str(<<"A">>), message |-> Num(7)]), EmptyObject>>,
     <<EmptyCode, EmptyObject>>,
     \* errors.test.js:149-155
     <<NOT_IMPLEMENTED, Obj([feature |-> Str(InputText.TestFeature)])>>,
     <<NOT_IMPLEMENTED, Null>>,
     <<UNEXPECTED, Undefined>>,
     \* errors.test.js:180-185, the key problems is missing
     <<VALIDATION_FAILED, Obj([reason |-> Str(InputText.MissingProblemsKey),
                               problemsText |-> Str(InputText.ProblemsMissing)])>>,
     \* errors.test.js:218-220
     <<VALIDATION_FAILED, Obj([reason |-> Str(InputText.MissingProblemsKey),
                               problems |-> Arr(<<Str(InputText.p1)>>),
                               problemsText |-> Str(InputText.ProblemsMissing)])>>,
     \* a required key that is present with the value null
     <<TestError, Obj([value |-> Null])>>,
     \* a required key that is present with the value undefined
     <<TestError, Obj([value |-> Undefined])>>,
     <<TestError, EmptyObject>>}

Options ==
    {Undefined, Obj([strict |-> Bool(TRUE)]), Obj([strict |-> Bool(FALSE)])}

\* process.env.NODE_ENV
NodeEnvs == {"development", "production"}

\* The originalError arguments on heap h: none, a value that is no error,
\* and every error created so far.
Originals(h) ==
    {Undefined, Str(InputText.x)} \cup {Ref(i) : i \in 1..Len(h)}

\* The number of error objects created in one behaviour.
MaxHeap == 2

(***************************************************************************)
(* The state machine: the calls a program makes, one action per call.      *)
(***************************************************************************)
NoCall ==
    [op |-> "none", def |-> Undefined, ctx |-> Undefined, orig |-> Undefined,
     opts |-> Undefined, env |-> "development", out |-> "returned", val |-> Undefined]

Init ==
    /\ heap = << >>
    /\ env \in NodeEnvs
    /\ last = [NoCall EXCEPT !.env = env]

\* The program makes a call while no earlier call threw (it catches nothing:
\* an error thrown at it ends it) and while the heap has room.
Running == last.out # "threw" /\ Len(heap) < MaxHeap

\* process.env.NODE_ENV = mode
SetNodeEnv(mode) ==
    /\ mode # env
    /\ env' = mode
    /\ UNCHANGED <<heap, last>>

\* new Error('Original Cause'), errors.test.js:151
NewError ==
    /\ Running
    /\ heap' = Append(heap, ErrorObject("Error", InputText.OriginalCause))
    /\ last' = [NoCall EXCEPT !.op = "Error", !.env = env, !.val = Ref(Len(heap) + 1)]
    /\ UNCHANGED env

\* createError(definition, context, originalError, options)
CreateError(definition, context, originalError, options) ==
    LET r == createError(heap, env, definition, context, originalError, options)
    IN  /\ Running
        /\ Len(r.heap) <= MaxHeap
        /\ heap' = r.heap
        /\ last' = [op |-> "createError", def |-> definition, ctx |-> context,
                    orig |-> originalError, opts |-> options, env |-> env,
                    out |-> r.out, val |-> r.val]
        /\ UNCHANGED env

\* new SystemError(definition, context, originalError, options)
Construct(definition, context, originalError, options) ==
    LET r == New(heap, heap,
                 SystemError(definition, context, originalError, options, env))
    IN  /\ Running
        /\ Len(r.heap) <= MaxHeap
        /\ heap' = r.heap
        /\ last' = [op |-> "SystemError", def |-> definition, ctx |-> context,
                    orig |-> originalError, opts |-> options, env |-> env,
                    out |-> r.out, val |-> r.val]
        /\ UNCHANGED env

Next ==
    \/ \E mode \in NodeEnvs : SetNodeEnv(mode)
    \/ NewError
    \/ \E a \in Arguments, o \in Originals(heap), opt \in Options :
            CreateError(a[1], a[2], o, opt)
    \/ \E a \in Arguments, o \in Originals(heap), opt \in Options :
            Construct(a[1], a[2], o, opt)

Spec == Init /\ [][Next]_vars


(***************************************************************************)
(* formatMessage and validateDefinition on their own: the arguments are    *)
(* drawn by the initial state, and one action per function applies it.     *)
(***************************************************************************)
\* The longest template made of the characters of Letters.
MaxLen == 4

\* A brace of each kind, a \w character and a character that is not \w.
Letters == {"{", "}", "k", "-"}

Texts == UNION {[1..n -> Letters] : n \in 0..MaxLen}

\* The template arguments: the texts, the templates of errors.test.js:51-90,
\* and the values of errors.test.js:80-83 that are no strings.
Templates ==
    {Str(s) : s \in Texts}
        \cup {Str(InputText.UserAction), Str(InputText.Values), Str(InputText.Template)}
        \cup {Undefined, Null, Num(123), EmptyObject}

\* The context arguments.
Contexts ==
    {Undefined, Null, EmptyObject,
     Obj([k |-> Str(<<"v">>)]),
     Obj([k |-> Str(<< >>)]),
     Obj([k |-> Str(<<"{", "k", "}">>)]),
     Obj([k |-> Str(<<"{", "j", "}">>), j |-> Str(<<"v">>)]),
     Obj([k |-> Null]),
     Obj([k |-> Undefined]),
     Obj([k |-> Num(0)]),
     Obj([k |-> Bool(FALSE)]),
     \* errors.test.js:61
     Obj([userId |-> Num(123)]),
     \* errors.test.js:70
     Obj([valNull |-> Null, valUndef |-> Undefined])}

\* The definition arguments of validateDefinition: those of the calls of
\* createError, and the values of errors.test.js:126 and :137 that are no
\* objects (the strings are among the templates).
Definitions ==
    {a[1] : a \in Arguments} \cup {Null, Undefined, Num(123), Bool(TRUE), Arr(<< >>)}
        \cup {INITIALIZATION_FAILED, INVALID_ARGUMENT}

InitPure ==
    /\ heap = << >>
    /\ env = "development"
    /\ \/ \E template \in Templates, context \in Contexts :
            last = [NoCall EXCEPT !.def = template, !.ctx = context]
       \/ \E definition \in Definitions :
            last = [NoCall EXCEPT !.def = definition]

\* formatMessage(template, context)
FormatMessage ==
    LET r == formatMessage(last.def, last.ctx)
    IN  /\ last.op = "none"
        /\ last' = [last EXCEPT !.op = "formatMessage", !.out = r.out, !.val = r.val]
        /\ UNCHANGED <<heap, env>>

\* validateDefinition(definition)
ValidateDefinition ==
    /\ last.op = "none"
    /\ last' = [last EXCEPT !.op = "validateDefinition",
                            !.val = Arr(validateDefinition(last.def))]
    /\ UNCHANGED <<heap, env>>

\* the formatMessage of system-error.js (errors.js:244-254), as the
\* constructor calls it at errors.js:295
SystemErrorFormat ==
    /\ last.op = "none"
    /\ last' = [last EXCEPT !.op = "SystemErrorFormatMessage",
                            !.val = Str(SystemErrorFormatMessage(last.def, last.ctx))]
    /\ UNCHANGED <<heap, env>>

NextPure == FormatMessage \/ SystemErrorFormat \/ ValidateDefinition

SpecPure == InitPure /\ [][NextPure]_vars

(***************************************************************************)
(* What the properties below read off a state.                             *)
(***************************************************************************)
\* The last call was createError(...)
Called == last.op = "createError"

\* The mode of the last call (errors.js:123)
Strict == Truthy(StrictOf(last.opts, last.env))

\* The last call returned a SystemError
ReturnedEntity ==
    /\ last.out = "returned"
    /\ last.val.t = "error"
    /\ heap[last.val.v].cls = "SystemError"

\* The properties of the object the last call returned
Entity == heap[last.val.v].props

\* validateDefinition on the definition of the last call
Problems == validateDefinition(last.def)

\* The outcome of the construction createError attempts at errors.js:142-147
Attempt == SystemError(last.def, last.ctx, last.orig, last.opts, last.env)

\* createError reached errors.js:142 and the constructor threw
AttemptFailed ==
    /\ ~(Strict /\ Len(Problems) > 0)
    /\ Attempt.out = "threw"

\* A definition with a message and no code (errors.test.js:167, :201)
MessageNoCode(definition) ==
    /\ definition.t = "object"
    /\ "code" \notin DOMAIN definition.v
    /\ IsString(Get(definition, "message"))
    /\ Truthy(Get(definition, "message"))

\* text s contains text sub
Contains(s, sub) ==
    \E i \in 1..(Len(s) - Len(sub) + 1) : SubSeq(s, i, i + Len(sub) - 1) = sub

(***************************************************************************)
(* C1: createError never raises: whatever the definition, the context, the *)
(* originalError and the options, in strict and in lenient mode, the call  *)
(* returns a SystemError and no error escapes to the caller.               *)
(***************************************************************************)
C1_NeverRaises == Called => ReturnedEntity

(***************************************************************************)
(* C2: happy path: when the definition passes validateDefinition and the   *)
(* context holds every key of definition.contextKeys, createError returns  *)
(* an entity with code = definition.code, msg = definition.message,        *)
(* message = formatMessage(definition.message, context), the context       *)
(* supplied, and original the cause supplied, by reference.                *)
(***************************************************************************)
C2_HappyPath ==
    (/\ Called
     /\ Problems = << >>
     /\ last.ctx.t = "object"
     /\ LET contextKeys == Get(last.def, "contextKeys")
        IN  IsArray(contextKeys) => MissingKeys(contextKeys, last.ctx) = << >>
     /\ IsError(last.orig))
    => (/\ ReturnedEntity
        /\ Entity.code = Get(last.def, "code")
        /\ Entity.msg = Get(last.def, "message")
        /\ LET rendered == formatMessage(Get(last.def, "message"), last.ctx)
           IN  rendered.out = "returned" /\ Entity.message = rendered.val
        /\ Entity.context = last.ctx
        /\ Entity.original = last.orig)

(***************************************************************************)
(* C3: strict degradation: in strict mode, whenever validateDefinition     *)
(* reports a problem, createError returns, whatever the context, an entity *)
(* whose code is SYS_VALIDATION_FAILED and whose context.problems is the   *)
(* list validateDefinition returned; for {message: 'Only message'} that    *)
(* list is the single problem of the missing code.                         *)
(***************************************************************************)
C3_StrictDegradation ==
    (Called /\ Strict /\ Len(Problems) > 0)
    => (/\ ReturnedEntity
        /\ Entity.code = Str(CodesText.SYS_VALIDATION_FAILED)
        /\ Get(Entity.context, "problems") = Arr(Problems)
        /\ last.def = OnlyMessage
            => Get(Entity.context, "problems") = Arr(<<Str(ErrorsText.MissingCode)>>))

\* A strict createError on a definition with a message, no code and a
\* required key that the context lacks has returned SYS_VALIDATION_FAILED
\* with the single problem of the missing code.
C3_Witness ==
    /\ Called /\ Strict /\ ReturnedEntity
    /\ last.def = OnlyMessageKeys
    /\ last.ctx = EmptyObject
    /\ Entity.code = Str(CodesText.SYS_VALIDATION_FAILED)
    /\ Get(Entity.context, "problems") = Arr(<<Str(ErrorsText.MissingCode)>>)

(***************************************************************************)
(* C4: the context of the SYS_VALIDATION_FAILED entity createError returns *)
(* on an invalid definition has exactly the fields reason, problems,       *)
(* problemsText and invalidDefinition: reason is 'Invalid error definition *)
(* provided to createError', problemsText is the problems joined by '; ',  *)
(* invalidDefinition is the definition rejected.                           *)
(***************************************************************************)
C4_ValidationFailedContext ==
    (Called /\ Strict /\ Len(Problems) > 0 /\ ReturnedEntity)
    => (/\ Entity.context.t = "object"
        /\ DOMAIN Entity.context.v =
                {"reason", "problems", "problemsText", "invalidDefinition"}
        /\ Entity.context.v.reason = Str(ExpectedText.InvalidDefinitionProvided)
        /\ Entity.context.v.problems = Arr(Problems)
        /\ Entity.context.v.problemsText =
                Str(Join([i \in 1..Len(Problems) |-> Problems[i].v],
                         <<";", " ">>))
        /\ Entity.context.v.invalidDefinition = last.def)

(***************************************************************************)
(* C5: whenever the construction createError attempts fails (so when, in   *)
(* strict mode, the context lacks a key of contextKeys), createError       *)
(* returns an entity whose code is SYS_UNEXPECTED, whose context is        *)
(* {reason: the failure's message, failedDefinition: the definition,       *)
(* failedContext: the context}, and whose original is the failure.         *)
(***************************************************************************)
C5_UnexpectedOnFailure ==
    (Called /\ AttemptFailed)
    => (/\ ReturnedEntity
        /\ Entity.code = Str(CodesText.SYS_UNEXPECTED)
        /\ Entity.context =
                Obj([reason |-> Attempt.val.v.props.message,
                     failedDefinition |-> last.def,
                     failedContext |-> last.ctx])
        /\ IsError(Entity.original)
        /\ heap[Entity.original.v] = Attempt.val.v)

(***************************************************************************)
(* C6: in lenient mode, createError on a definition with a message and no  *)
(* code returns an entity whose code is SYS_UNEXPECTED, whose original is  *)
(* the error the constructor threw (its message contains 'SystemError      *)
(* constructor: Invalid or incomplete error definition passed.'), and      *)
(* whose context.reason is original.message.                               *)
(***************************************************************************)
C6_LenientUnexpected ==
    (Called /\ ~Strict /\ MessageNoCode(last.def))
    => (/\ ReturnedEntity
        /\ Entity.code = Str(CodesText.SYS_UNEXPECTED)
        /\ IsError(Entity.original)
        /\ LET original == heap[Entity.original.v].props
           IN  /\ Contains(original.message.v, ErrorsText.CtorInvalid)
               /\ Get(Entity.context, "reason") = original.message)

C8_FallbackNeverFails ==
    (Called /\ ((Strict /\ Len(Problems) > 0) \/ AttemptFailed))
    => (/\ ReturnedEntity
        /\ Entity.code \in {Str(CodesText.SYS_VALIDATION_FAILED), Str(CodesText.SYS_UNEXPECTED)})

(***************************************************************************)
(* What formatMessage is to return, stated on the positions of the         *)
(* template rather than by a scan of it.                                   *)
(***************************************************************************)
\* s[i..j] is a placeholder: "{", one or more \w characters, "}"
IsPlaceholder(s, i, j) ==
    /\ 1 <= i /\ i + 1 < j /\ j <= Len(s)
    /\ s[i] = "{" /\ s[j] = "}"
    /\ \A m \in (i + 1)..(j - 1) : s[m] \in WordChar

\* What position p of template s contributes to the result
ExpectedAt(s, p, context) ==
    IF \E j \in 1..Len(s) : IsPlaceholder(s, p, j)
    THEN LET j == CHOOSE j \in 1..Len(s) : IsPlaceholder(s, p, j)
             key == SubSeq(s, p + 1, j - 1)
         IN  IF HasKey(context, key) /\ ~IsNullish(Lookup(context, key))
             THEN toString(Lookup(context, key))
             ELSE SubSeq(s, p, j)
    ELSE IF \E i \in 1..p, j \in p..Len(s) : IsPlaceholder(s, i, j)
    THEN << >>
    ELSE <<s[p]>>

RECURSIVE ExpectedFrom(_, _, _)
ExpectedFrom(s, p, context) ==
    IF p > Len(s) THEN << >>
    ELSE ExpectedAt(s, p, context) \o ExpectedFrom(s, p + 1, context)

(***************************************************************************)
(* C9: formatMessage on a string template replaces exactly the             *)
(* placeholders {key} whose key is in the context with a value that is     *)
(* neither null nor undefined, by the text of the value, and leaves every  *)
(* other character as it is, the placeholders without such a value         *)
(* included; so a template without placeholders is returned unchanged, for *)
(* the context {} and for the context null.  No key is in a context that   *)
(* is null or left out.                                                    *)
(***************************************************************************)
C9_Render ==
    (last.op = "formatMessage" /\ IsString(last.def))
    => (/\ last.out = "returned"
        /\ last.val = Str(ExpectedFrom(last.def.v, 1, last.ctx))
        /\ (last.ctx \in {EmptyObject, Null} /\ ~\E i \in 1..Len(last.def.v), j \in 1..Len(last.def.v) :
                    IsPlaceholder(last.def.v, i, j))
            => last.val = last.def)

(***************************************************************************)
(* C10: formatMessage returns the empty string and throws nothing whenever *)
(* the template is not a string: for null, undefined, a number, an object. *)
(***************************************************************************)
C10_NonStringTemplate ==
    (last.op = "formatMessage" /\ ~IsString(last.def))
    => (last.out = "returned" /\ last.val = Str(<< >>))

(***************************************************************************)
(* C11: neither formatMessage expands recursively: on a string template    *)
(* and a context object the result is the template with each of its own    *)
(* placeholders replaced once; the text of a value goes into the result as *)
(* it is, also where it reads {j} and j is a key of the context.           *)
(***************************************************************************)
C11_NoRecursiveExpansion ==
    (/\ last.op \in {"formatMessage", "SystemErrorFormatMessage"}
     /\ IsString(last.def)
     /\ last.ctx.t = "object")
    => (/\ last.out = "returned"
        /\ last.val = Str(ExpectedFrom(last.def.v, 1, last.ctx)))

\* formatMessage('{k}-', {k: '{j}', j: 'v'}) has returned '{j}-'
C11_Witness ==
    /\ last.op = "formatMessage"
    /\ last.def = Str(<<"{", "k", "}", "-">>)
    /\ last.ctx = Obj([k |-> Str(<<"{", "j", "}">>), j |-> Str(<<"v">>)])
    /\ last.out = "returned"
    /\ last.val = Str(<<"{", "j", "}", "-">>)

(***************************************************************************)
(* C12: validateDefinition returns exactly one problem, 'Definition is     *)
(* missing or invalid.', whenever the definition is null, undefined, a     *)
(* number, a string, a boolean or an array.                                *)
(***************************************************************************)
C12_NonRecordDefinition ==
    (/\ last.op = "validateDefinition"
     /\ last.def.t \in {"null", "undefined", "number", "string", "boolean", "array"})
    => last.val = Arr(<<Str(ExpectedText.DefinitionMissing)>>)

(***************************************************************************)
(* C13: on an object, validateDefinition returns exactly the problems that *)
(* apply, each decided on its own: the missing code iff code is not a      *)
(* non-empty string, the code format iff code is a non-empty string that   *)
(* does not match /^[A-Z][A-Z0-9_]*$/, the missing message iff message is  *)
(* not a non-empty string; so the result is empty iff code is a non-empty  *)
(* string that matches and message is a non-empty string.                  *)
(***************************************************************************)
NonEmptyString(x) == IsString(x) /\ x.v # << >>

C13_ExactProblems ==
    (last.op = "validateDefinition" /\ last.def.t = "object")
    => LET code == Get(last.def, "code")
           message == Get(last.def, "message")
           problems == {last.val.v[i] : i \in 1..Len(last.val.v)}
       IN  /\ Str(ErrorsText.MissingCode) \in problems <=> ~NonEmptyString(code)
           /\ Str(ErrorsText.InvalidCodeFormat) \in problems
                <=> (NonEmptyString(code) /\ ~CodePattern(code))
           /\ Str(ErrorsText.MissingMessage) \in problems <=> ~NonEmptyString(message)
           /\ problems \subseteq {Str(ErrorsText.MissingCode), Str(ErrorsText.InvalidCodeFormat),
                                  Str(ErrorsText.MissingMessage)}
           /\ Len(last.val.v) = Cardinality(problems)
           /\ last.def = EmptyObject
                => problems = {Str(ErrorsText.MissingCode), Str(ErrorsText.MissingMessage)}

(***************************************************************************)
(* errors.js:176-222, checkErrorChain (errors.js 0.1.5).  h is the heap;   *)
(* the result is the value returned or the error thrown.                   *)
(***************************************************************************)
UpperLetters ==
    <<"A", "B", "C", "D", "E", "F", "G", "H", "I", "J", "K", "L", "M",
      "N", "O", "P", "Q", "R", "S", "T", "U", "V", "W", "X", "Y", "Z">>

LowerLetters ==
    <<"a", "b", "c", "d", "e", "f", "g", "h", "i", "j", "k", "l", "m",
      "n", "o", "p", "q", "r", "s", "t", "u", "v", "w", "x", "y", "z">>

\* A toLowerCase that leaves the capitals as they are
toLowerCaseKeepingCase(s) == s

\* String.prototype.toLowerCase
toLowerCase(s) ==
    [i \in 1..Len(s) |->
        IF s[i] \in Upper
        THEN LowerLetters[CHOOSE n \in 1..Len(UpperLetters) : UpperLetters[n] = s[i]]
        ELSE s[i]]

\* String.prototype.includes
includes(s, sub) ==
    \E i \in 1..(Len(s) - Len(sub) + 1) : SubSeq(s, i, i + Len(sub) - 1) = sub

\* `${x}` in a template literal
TemplateText(x) ==
    CASE x.t = "undefined" -> RuntimeText.undefined
      [] x.t = "null" -> RuntimeText.null
      [] OTHER -> toString(x)

\* current.name of the error object o, for a property it may lack
Prop(o, name) == IF name \in DOMAIN o.props THEN o.props[name] ELSE Undefined

\* A toJSON that writes every cause as the minimal record of a plain error
toJSONShallow(h, o) ==
    LET original == Prop(o, "original")
        originalErrorJSON ==
            IF ~IsError(original) THEN Undefined
            ELSE Obj([name |-> Prop(h[original.v], "name"),
                      message |-> Prop(h[original.v], "message"),
                      stack |-> Prop(h[original.v], "stack")])
    IN  Obj([name |-> Prop(o, "name"), code |-> Prop(o, "code"),
             message |-> Prop(o, "message"), msg |-> Prop(o, "msg"),
             subsystem |-> Prop(o, "subsystem"), context |-> Prop(o, "context"),
             recoverable |-> Prop(o, "recoverable"), docs |-> Prop(o, "docs"),
             stack |-> Prop(o, "stack"), original |-> originalErrorJSON])

RECURSIVE toJSON(_, _)
\* SystemError.prototype.toJSON of the SystemError object o
toJSON(h, o) ==
    LET original == Prop(o, "original")
        originalErrorJSON ==
            IF ~IsError(original) THEN Undefined
            ELSE IF h[original.v].cls = "SystemError" THEN toJSON(h, h[original.v])
            ELSE Obj([name |-> Prop(h[original.v], "name"),
                      message |-> Prop(h[original.v], "message"),
                      stack |-> Prop(h[original.v], "stack")])
    IN  Obj([name |-> Prop(o, "name"), code |-> Prop(o, "code"),
             message |-> Prop(o, "message"), msg |-> Prop(o, "msg"),
             subsystem |-> Prop(o, "subsystem"), context |-> Prop(o, "context"),
             recoverable |-> Prop(o, "recoverable"), docs |-> Prop(o, "docs"),
             stack |-> Prop(o, "stack"), original |-> originalErrorJSON])

\* JSON.stringify(current): an Error has no enumerable property of its own,
\* a SystemError is written by its toJSON.
JsonOfError(h, o) ==
    IF o.cls = "SystemError" THEN JsonText(toJSON(h, o)) ELSE <<"{", "}">>

\* A class name that tells SystemError from the rest only
ClassNameSystemOrError(o) ==
    IF o.cls = "SystemError" THEN ErrorsText.SystemError ELSE ErrorsText.Error

\* current.constructor.name
ClassName(o) ==
    CASE o.cls = "SystemError" -> ErrorsText.SystemError
      [] o.cls = "TypeError" -> ErrorsText.TypeError
      [] OTHER -> ErrorsText.Error

RECURSIVE FirstMissingFromEnd(_, _)
\* The last keyword of the array that the message does not include
FirstMissingFromEnd(currentMessage, keywords) ==
    IF keywords = << >> THEN << >>
    ELSE IF ~includes(currentMessage, toLowerCase(keywords[Len(keywords)].v))
    THEN <<keywords[Len(keywords)]>>
    ELSE FirstMissingFromEnd(currentMessage, SubSeq(keywords, 1, Len(keywords) - 1))

RECURSIVE FirstMissing(_, _)
\* The first keyword of the array that the message does not include, in the
\* order of the for loop of errors.js:204; << >> when there is none.
FirstMissing(currentMessage, keywords) ==
    IF keywords = << >> THEN << >>
    ELSE IF ~includes(currentMessage, toLowerCase(keywords[1].v)) THEN <<keywords[1]>>
    ELSE FirstMissing(currentMessage, Tail(keywords))

\* One pass of the loop body, errors.js:182-216, on the error object o: the
\* error thrown, or a return of null when the level passes.
CheckLevel(h, o, index, expected) ==
    LET code == Prop(o, "code")
        message == Prop(o, "message")
        said == ChainText.ChainQuote \o TemplateText(message) \o ChainText.Quote
    IN  IF Truthy(Get(expected, "code")) /\ code # Get(expected, "code")
        THEN Threw(ErrorObject("Error",
                ChainText.ChainCode \o NumText(index) \o ChainText.ChainExpected
                    \o TemplateText(Get(expected, "code")) \o ChainText.ChainGot
                    \o TemplateText(code) \o said))
        ELSE IF Truthy(Get(expected, "type")) /\ Str(ClassName(o)) # Get(expected, "type")
        THEN Threw(ErrorObject("Error",
                ChainText.ChainType \o NumText(index) \o ChainText.ChainExpected
                    \o TemplateText(Get(expected, "type")) \o ChainText.ChainGot
                    \o ClassName(o) \o said))
        ELSE IF ~Truthy(Get(expected, "message")) THEN Returned(Null)
        ELSE IF ~Truthy(message)
        THEN Threw(ErrorObject("Error",
                ChainText.ChainAt \o NumText(index) \o ChainText.ChainNoMessage \o JsonOfError(h, o)))
        ELSE LET currentMessage == toLowerCase(message.v)
                 tail == ChainText.ChainMessage \o message.v \o ChainText.Quote
             IN  IF IsArray(Get(expected, "message"))
                 THEN LET missing == FirstMissing(currentMessage, Get(expected, "message").v)
                      IN  IF missing # << >>
                          THEN Threw(ErrorObject("Error",
                                  ChainText.ChainMessageAt \o NumText(index) \o ChainText.ChainKeyword
                                      \o missing[1].v \o tail))
                          ELSE Returned(Null)
                 ELSE IF ~includes(currentMessage, toLowerCase(Get(expected, "message").v))
                 THEN Threw(ErrorObject("Error",
                         ChainText.ChainMessageAt \o NumText(index) \o ChainText.ChainContain
                             \o Get(expected, "message").v \o tail))
                 ELSE Returned(Null)

RECURSIVE ChainLoop(_, _, _, _)
\* The while loop of errors.js:180-219 from `current` and `index` on
ChainLoop(h, current, index, expectedChain) ==
    IF ~Truthy(current) THEN Returned(Bool(TRUE))
    ELSE IF IsNullish(expectedChain) THEN Threw(CannotRead(expectedChain, Spell.length))
    ELSE IF ~IsArray(expectedChain) \/ index >= Len(expectedChain.v)
    THEN Returned(Bool(TRUE))
    ELSE LET o == h[current.v]
             level == CheckLevel(h, o, index, expectedChain.v[index + 1])
         IN  IF level.out = "threw" THEN level
             ELSE ChainLoop(h, Prop(o, "original"), index + 1, expectedChain)

checkErrorChain(h, error, expectedChain) == ChainLoop(h, error, 0, expectedChain)

(***************************************************************************)
(* checkErrorChain on the chains the constructor builds: the errors are    *)
(* created by the calls of errors.test.js:216-221 and :245-250, then       *)
(* checkErrorChain is called on them.                                      *)
(***************************************************************************)
\* errors.test.js:216
ArgumentContext == Obj([name |-> Str(ChainInputText.arg1), reason |-> Str(ChainInputText.IsNull)])

\* errors.test.js:219
OuterContext ==
    Obj([reason |-> Str(ChainInputText.OuterFail),
         problems |-> Arr(<<Str(InputText.p1)>>),
         problemsText |-> Str(ChainInputText.Problem1)])

\* errors.test.js:248
WrappingContext == Obj([reason |-> Str(ChainInputText.WrappingTypeError)])

\* The definition and context arguments of the constructor calls
ChainArguments ==
    {<<INVALID_ARGUMENT, ArgumentContext>>,
     <<VALIDATION_FAILED, OuterContext>>,
     <<UNEXPECTED, WrappingContext>>}

\* The arguments of new TypeError(...) (errors.test.js:245) and of an Error
\* without a message
PlainErrors == {<<"TypeError", ChainInputText.OriginalTypeError>>, <<"Error", << >>>>}

\* One entry of expectedChain
Level(code, type, message) ==
    LET fields == [code |-> code, type |-> type, message |-> message]
    IN  Obj([n \in {m \in DOMAIN fields : fields[m] # Undefined} |-> fields[n]])

\* The entries of errors.test.js:225-288, and entries that name a type, a
\* fragment in capitals, or nothing
Levels ==
    {Level(Str(CodesText.SYS_VALIDATION_FAILED), Str(ErrorsText.SystemError), Str(ChainInputText.OuterFail)),
     Level(Str(CodesText.SYS_INVALID_ARGUMENT), Undefined,
           Arr(<<Str(ChainInputText.argument), Str(RuntimeText.null)>>)),
     Level(Str(CodesText.SYS_UNEXPECTED), Undefined, Undefined),
     Level(Str(CodesText.SYS_INVALID_ARGUMENT), Undefined, Undefined),
     Level(Str(CodesText.SYS_VALIDATION_FAILED), Undefined, Undefined),
     Level(Undefined, Str(ErrorsText.SystemError), Undefined),
     Level(Undefined, Str(ErrorsText.TypeError), Undefined),
     Level(Str(CodesText.SYS_VALIDATION_FAILED), Undefined, Str(ChainInputText.NonExistentWord)),
     Level(Str(CodesText.SYS_INVALID_ARGUMENT), Undefined,
           Arr(<<Str(ChainInputText.argument), Str(ChainInputText.NonExistentWord)>>)),
     Level(Undefined, Undefined, Arr(<<Str(ChainInputText.NonExistentWord), Str(InputText.x)>>)),
     Level(Undefined, Undefined, Str(ChainInputText.OUTER)),
     Level(Undefined, Undefined, Undefined)}

\* The longest expectedChain made of any entries
MaxLevels == 2

\* The expectedChain arguments: the arrays of up to MaxLevels entries, the
\* array of errors.test.js:277-281, and the values of errors.test.js:295-296
\* that are no arrays
ExpectedChains ==
    {Arr(c) : c \in UNION {[1..n -> Levels] : n \in 0..MaxLevels}}
        \cup {Arr(<<Level(Str(CodesText.SYS_VALIDATION_FAILED), Undefined, Undefined),
                    Level(Str(CodesText.SYS_INVALID_ARGUMENT), Undefined, Undefined),
                    Level(Str(ChainInputText.SOME_THIRD), Undefined, Undefined)>>),
              Null, EmptyObject}

InitChain ==
    /\ heap = << >>
    /\ env = "development"
    /\ last = NoCall

\* new TypeError(message), new Error(message)
NewPlainError(cls, message) ==
    /\ Running
    /\ heap' = Append(heap, ErrorObject(cls, message))
    /\ last' = [NoCall EXCEPT !.op = cls, !.val = Ref(Len(heap) + 1)]
    /\ UNCHANGED env

\* checkErrorChain(error, expectedChain)
CheckErrorChain(error, expectedChain) ==
    LET r == checkErrorChain(heap, error, expectedChain)
    IN  /\ last.op # "checkErrorChain"
        /\ last' = [NoCall EXCEPT !.op = "checkErrorChain", !.def = error,
                                  !.ctx = expectedChain, !.out = r.out, !.val = r.val]
        /\ UNCHANGED <<heap, env>>

NextChain ==
    \/ \E e \in PlainErrors : NewPlainError(e[1], e[2])
    \/ \E a \in ChainArguments, o \in {Undefined} \cup {Ref(i) : i \in 1..Len(heap)} :
            Construct(a[1], a[2], o, Undefined)
    \/ \E error \in {Null} \cup {Ref(i) : i \in 1..Len(heap)},
          expectedChain \in ExpectedChains :
            CheckErrorChain(error, expectedChain)

SpecChain == InitChain /\ [][NextChain]_vars

(***************************************************************************)
(* What the properties of checkErrorChain read off a state.                *)
(***************************************************************************)
\* The last call was checkErrorChain(error, expectedChain)
Checked == last.op = "checkErrorChain"

RECURSIVE CauseChain(_, _)
\* The error objects from x down its original links
CauseChain(h, x) ==
    IF IsError(x) THEN <<h[x.v]>> \o CauseChain(h, Prop(h[x.v], "original"))
    ELSE << >>

\* The chain of the error of the last call, and the levels expected of it
Chain == CauseChain(heap, last.def)

Expect == last.ctx.v

\* The number of positions that have both an error and an expected level
Common == IF Len(Chain) < Len(Expect) THEN Len(Chain) ELSE Len(Expect)

\* The class names, by class
TypeNames ==
    [SystemError |-> ErrorsText.SystemError, TypeError |-> ErrorsText.TypeError, Error |-> ErrorsText.Error]

\* Text sub occurs in text s, whatever the case of the letters: character by
\* character the same, or the capital and the small form of one letter
ContainsIgnoringCase(s, sub) ==
    \E i \in 0..(Len(s) - Len(sub)) :
        \A n \in 1..Len(sub) :
            \/ s[i + n] = sub[n]
            \/ \E k \in 1..Len(UpperLetters) :
                    {s[i + n], sub[n]} = {UpperLetters[k], LowerLetters[k]}

\* The fragments of the level (one string, or the strings of an array) that
\* the message of error object o lacks, in order
MissingFragments(o, level) ==
    SelectSeq(IF "message" \notin DOMAIN level.v THEN << >>
              ELSE IF IsArray(level.v.message) THEN level.v.message.v
              ELSE <<level.v.message>>,
              LAMBDA f : ~ContainsIgnoringCase(Prop(o, "message").v, f.v))

CodeMatches(o, level) ==
    "code" \in DOMAIN level.v => Prop(o, "code") = level.v.code

TypeMatches(o, level) ==
    "type" \in DOMAIN level.v => level.v.type = Str(TypeNames[o.cls])

LevelMatches(o, level) ==
    CodeMatches(o, level) /\ TypeMatches(o, level) /\ MissingFragments(o, level) = << >>

\* The first position at which the error does not match the expected level;
\* 0 when every common position matches
FirstMismatch ==
    IF \A i \in 1..Common : LevelMatches(Chain[i], Expect[i]) THEN 0
    ELSE CHOOSE i \in 1..Common :
            /\ ~LevelMatches(Chain[i], Expect[i])
            /\ \A n \in 1..(i - 1) : LevelMatches(Chain[n], Expect[n])

\* The message of the error the last call threw
ThrownMessage == last.val.v.props.message.v

\* Text s begins with text prefix
StartsWith(s, prefix) ==
    Len(prefix) <= Len(s) /\ SubSeq(s, 1, Len(prefix)) = prefix

(***************************************************************************)
(* C14: checkErrorChain returns true whenever the chain has exactly as     *)
(* many levels as expectedChain and, at every position, each code, type    *)
(* and message fragment the level names matches the error there; and a     *)
(* call either returns true or throws: it never returns another value.     *)
(***************************************************************************)
C14_ChainMatches ==
    Checked
    => (/\ (/\ IsArray(last.ctx)
            /\ Len(Chain) = Len(Expect)
            /\ FirstMismatch = 0)
            => (last.out = "returned" /\ last.val = Bool(TRUE))
        /\ last.out = "returned" => last.val = Bool(TRUE))

\* The call of errors.test.js:225-230 has returned true: the chain of
\* SYS_VALIDATION_FAILED over SYS_INVALID_ARGUMENT, two levels expected.
C14_Witness ==
    /\ Checked
    /\ Len(heap) = 2
    /\ last.def = Ref(2)
    /\ Prop(heap[2], "code") = Str(CodesText.SYS_VALIDATION_FAILED)
    /\ Prop(heap[2], "original") = Ref(1)
    /\ Prop(heap[1], "code") = Str(CodesText.SYS_INVALID_ARGUMENT)
    /\ last.ctx = Arr(<<Level(Str(CodesText.SYS_VALIDATION_FAILED), Str(ErrorsText.SystemError),
                              Str(ChainInputText.OuterFail)),
                        Level(Str(CodesText.SYS_INVALID_ARGUMENT), Undefined,
                              Arr(<<Str(ChainInputText.argument), Str(RuntimeText.null)>>))>>)
    /\ last.out = "returned"
    /\ last.val = Bool(TRUE)

(***************************************************************************)
(* C15: checkErrorChain throws on every difference of length. With more    *)
(* expected levels than the chain has, and the levels it has matching, it  *)
(* throws 'Expected N levels, but error chain ended at level M'; with a    *)
(* further original after all the expected levels matched, it throws that  *)
(* the chain has 'more levels than expected'; it returns true in neither.  *)
(***************************************************************************)
C15_LengthMismatch ==
    (/\ Checked
     /\ IsArray(last.ctx)
     /\ Len(Chain) # Len(Expect))
    => (/\ last.out = "threw"
        /\ (FirstMismatch = 0 /\ Len(Chain) < Len(Expect))
            => Contains(ThrownMessage,
                        ExpectedText.ExpectedLevels \o NumText(Len(Expect)) \o ExpectedText.Levels
                            \o ExpectedText.EndedAtLevel \o NumText(Len(Chain)))
        /\ (FirstMismatch = 0 /\ Len(Chain) > Len(Expect))
            => Contains(ThrownMessage, ExpectedText.MoreLevels))

(***************************************************************************)
(* C16: checkErrorChain throws an error whose message names the contract,  *)
(* 'expectedChain must be an array', whenever expectedChain is no array    *)
(* (null, a plain object), whatever the error; it never returns true then. *)
(***************************************************************************)
C16_NotAnArray ==
    (Checked /\ ~IsArray(last.ctx))
    => (/\ last.out = "threw"
        /\ Contains(ThrownMessage, ExpectedText.MustBeArray))

(***************************************************************************)
(* C17: at the first position where the error does not match the expected  *)
(* level, checkErrorChain throws: when the level names a code and the      *)
(* error has no code or another one, the error thrown reports the code at  *)
(* that position; when the code matches and the level names a type that    *)
(* is not the name of the error's class, it reports the type at that       *)
(* position. No deeper position is reported.                               *)
(***************************************************************************)
C17_CodeAndType ==
    (/\ Checked
     /\ IsArray(last.ctx)
     /\ FirstMismatch # 0)
    => LET o == Chain[FirstMismatch]
           level == Expect[FirstMismatch]
           position == NumText(FirstMismatch - 1)
       IN  /\ ~CodeMatches(o, level)
            => (/\ last.out = "threw"
                /\ last.val.v.cls = "Error"
                /\ StartsWith(ThrownMessage,
                              ChainText.ChainCode \o position \o ChainText.ChainExpected
                                  \o level.v.code.v \o ChainText.ChainGot))
           /\ (CodeMatches(o, level) /\ ~TypeMatches(o, level))
            => (/\ last.out = "threw"
                /\ last.val.v.cls = "Error"
                /\ StartsWith(ThrownMessage,
                              ChainText.ChainType \o position \o ChainText.ChainExpected
                                  \o level.v.type.v \o ChainText.ChainGot
                                  \o TypeNames[o.cls]))

\* The call of errors.test.js:245-255 has thrown: SYS_UNEXPECTED wrapping a
\* TypeError, where the second level expects a SystemError.
C17_Witness ==
    /\ Checked
    /\ Len(heap) = 2
    /\ last.def = Ref(2)
    /\ heap[1].cls = "TypeError"
    /\ Prop(heap[2], "code") = Str(CodesText.SYS_UNEXPECTED)
    /\ Prop(heap[2], "original") = Ref(1)
    /\ last.ctx = Arr(<<Level(Str(CodesText.SYS_UNEXPECTED), Undefined, Undefined),
                        Level(Undefined, Str(ErrorsText.SystemError), Undefined)>>)
    /\ last.out = "threw"
    /\ StartsWith(ThrownMessage, ChainText.ChainType \o <<"1">>)

\* The position at which the last call found the code and the type as the
\* level expects them and some fragment of the level missing; 0 when none
MessageMismatch ==
    IF /\ FirstMismatch # 0
       /\ CodeMatches(Chain[FirstMismatch], Expect[FirstMismatch])
       /\ TypeMatches(Chain[FirstMismatch], Expect[FirstMismatch])
    THEN FirstMismatch
    ELSE 0

(***************************************************************************)
(* C18: a level that names message fragments is accepted only if the       *)
(* message of the error includes every fragment, the case of the letters   *)
(* set aside; otherwise checkErrorChain throws an error whose message      *)
(* names the first fragment that is missing.                               *)
(***************************************************************************)
C18_Fragments ==
    (/\ Checked
     /\ IsArray(last.ctx)
     /\ MessageMismatch # 0)
    => (/\ last.out = "threw"
        /\ Contains(ThrownMessage,
                    MissingFragments(Chain[MessageMismatch],
                                     Expect[MessageMismatch])[1].v))

(***************************************************************************)
(* C18, as the code has it: a level that names message fragments is        *)
(* accepted only if the message of the error includes every fragment, the  *)
(* case of the letters set aside. Otherwise checkErrorChain throws: for an *)
(* error with a message that is not empty, an error that names the         *)
(* position and the first fragment that is missing; for an error with an   *)
(* empty message, an error that reports that the error at that position    *)
(* has no message property, and names no fragment.                         *)
(***************************************************************************)
C18_FragmentsOfMessage ==
    (/\ Checked
     /\ IsArray(last.ctx)
     /\ MessageMismatch # 0)
    => LET o == Chain[MessageMismatch]
           level == Expect[MessageMismatch]
           position == NumText(MessageMismatch - 1)
           fragment == MissingFragments(o, level)[1].v
       IN  /\ last.out = "threw"
           /\ last.val.v.cls = "Error"
           /\ IF Prop(o, "message").v = << >>
              THEN /\ StartsWith(ThrownMessage, ChainText.ChainAt \o position \o ChainText.ChainNoMessage)
                   /\ ~Contains(ThrownMessage, fragment)
              ELSE StartsWith(ThrownMessage,
                              ChainText.ChainMessageAt \o position
                                  \o (IF IsArray(level.v.message) THEN ChainText.ChainKeyword
                                      ELSE ChainText.ChainContain)
                                  \o fragment \o ChainText.ChainMessage)

\* The call of errors.test.js:266-272 has thrown: the second level expects
\* 'argument' and 'NonExistentWord' of the message of SYS_INVALID_ARGUMENT.
C18_Witness ==
    /\ Checked
    /\ Len(heap) = 2
    /\ last.def = Ref(2)
    /\ Prop(heap[2], "code") = Str(CodesText.SYS_VALIDATION_FAILED)
    /\ Prop(heap[2], "original") = Ref(1)
    /\ Prop(heap[1], "code") = Str(CodesText.SYS_INVALID_ARGUMENT)
    /\ last.ctx = Arr(<<Level(Str(CodesText.SYS_VALIDATION_FAILED), Undefined, Undefined),
                        Level(Str(CodesText.SYS_INVALID_ARGUMENT), Undefined,
                              Arr(<<Str(ChainInputText.argument), Str(ChainInputText.NonExistentWord)>>))>>)
    /\ last.out = "threw"
    /\ MessageMismatch = 2
    /\ Contains(ThrownMessage, ChainText.ChainKeyword \o ChainInputText.NonExistentWord)

(***************************************************************************)
(* What the properties of the constructor read off a state.                *)
(***************************************************************************)
\* The last call was new SystemError(definition, context, originalError, options)
Constructed == last.op = "SystemError"

\* The definition of the last call has a string for property `name`
DefinitionString(name) ==
    /\ last.def.t = "object"
    /\ name \in DOMAIN last.def.v
    /\ last.def.v[name].t = "string"

\* The mode of the last construction: options.strict when given, else
\* every NODE_ENV but 'production' is strict
ConstructorStrict ==
    IF last.opts.t = "object" /\ "strict" \in DOMAIN last.opts.v
    THEN last.opts.v.strict = Bool(TRUE)
    ELSE last.env # "production"

\* The contextKeys of the definition of the last call, when they are an array
RequiredKeys ==
    IF /\ last.def.t = "object"
       /\ "contextKeys" \in DOMAIN last.def.v
       /\ last.def.v.contextKeys.t = "array"
    THEN last.def.v.contextKeys.v
    ELSE << >>

\* The required keys that the context of the last call lacks, in their
\* order: the context has no property of the name that the key spells
Missing ==
    SelectSeq(RequiredKeys,
              LAMBDA key :
                ~(/\ last.ctx.t = "object"
                  /\ \E n \in DOMAIN last.ctx.v : n \in DOMAIN Spell /\ Spell[n] = key.v))

C20_MissingContextKeys ==
    (/\ Constructed
     /\ DefinitionString("code")
     /\ DefinitionString("message"))
    => (/\ last.out = "threw" <=> (ConstructorStrict /\ Missing # << >>)
        /\ last.out = "threw"
            => (/\ last.val.v.cls = "Error"
                /\ StartsWith(ThrownMessage,
                        ErrorsText.CtorMissing1 \o last.def.v.code.v \o ErrorsText.CtorMissing2
                            \o Join([i \in 1..Len(Missing) |-> Missing[i].v],
                                    ErrorsText.CommaSpace)
                            \o ErrorsText.CtorMissing3))
        /\ last.out = "returned" => ReturnedEntity)

\* The construction of errors.test.js:180-185 has thrown in strict mode: of
\* the keys reason, problems and problemsText the context lacks problems,
\* and the message lists that key alone.
C20_Witness ==
    /\ Constructed
    /\ last.def = VALIDATION_FAILED
    /\ last.ctx = Obj([reason |-> Str(InputText.MissingProblemsKey),
                       problemsText |-> Str(InputText.ProblemsMissing)])
    /\ ConstructorStrict
    /\ Len(RequiredKeys) = 3
    /\ Missing = <<Str(Spell.problems)>>
    /\ last.out = "threw"
    /\ Contains(ThrownMessage, ErrorsText.CtorMissing2 \o Spell.problems \o ErrorsText.CtorMissing3)

(***************************************************************************)
(* What the properties of the entity read off a state.                     *)
(***************************************************************************)
\* createError went on to construct the entity from its own arguments: the
\* mode was lenient or the definition had no problem
NormalPath == Called /\ ~(Strict /\ Problems # << >>)

\* Entity properties e are those of an entity of definition d and of the
\* context argument c, with the defaults of errors.js:303-310
DefaultsApplied(d, c, e) ==
    /\ e.code = d.v.code
    /\ e.msg = d.v.message
    /\ e.subsystem = (IF "subsystem" \in DOMAIN d.v THEN d.v.subsystem
                      ELSE Str(ErrorsText.unknown))
    /\ e.recoverable = Bool(~("recoverable" \in DOMAIN d.v
                              /\ d.v.recoverable = Bool(FALSE)))
    /\ e.context = (IF c \in {Undefined, Null} THEN EmptyObject ELSE c)
    /\ e.docs = (IF "docs" \in DOMAIN d.v THEN d.v.docs ELSE Undefined)

(***************************************************************************)
(* C21: every entity constructed has the defaults: subsystem 'unknown'     *)
(* when the definition has none, recoverable true unless the definition    *)
(* says false, context {} when no context or null is given; code, msg and  *)
(* docs are those of the definition. This holds of the entity the          *)
(* constructor returns, of the entity createError constructs from its      *)
(* arguments, and of the SYS_VALIDATION_FAILED entity it returns in their  *)
(* place.                                                                  *)
(***************************************************************************)
C21_Defaults ==
    /\ (Constructed /\ ReturnedEntity) => DefaultsApplied(last.def, last.ctx, Entity)
    /\ (NormalPath /\ ReturnedEntity) => DefaultsApplied(last.def, last.ctx, Entity)
    /\ (Called /\ ~NormalPath /\ ReturnedEntity)
        => DefaultsApplied(VALIDATION_FAILED, Entity.context, Entity)

\* new SystemError({ code, message }) with no context has returned an entity
\* with every default
C21_Witness ==
    /\ Constructed
    /\ last.def = InvalidCode
    /\ last.ctx = Undefined
    /\ ReturnedEntity
    /\ Entity.subsystem = Str(ErrorsText.unknown)
    /\ Entity.recoverable = Bool(TRUE)
    /\ Entity.context = EmptyObject
    /\ Entity.docs = Undefined

(***************************************************************************)
(* C22: the original of every entity that createError or the constructor   *)
(* returns is null or an error: an originalError that is no error (a       *)
(* string) is dropped without a failure, on the SYS_VALIDATION_FAILED      *)
(* branch as on the normal path, and an error is kept as the very object   *)
(* given. Every original on the heap is null or an error created earlier.  *)
(***************************************************************************)
C22_OriginalIsError ==
    /\ ((Called \/ Constructed) /\ ReturnedEntity)
        => Entity.original = (IF last.orig.t = "error" THEN last.orig ELSE Null)
    /\ \A i \in 1..Len(heap) :
        heap[i].cls = "SystemError"
        => \/ heap[i].props.original = Null
           \/ \E n \in 1..(i - 1) : heap[i].props.original = Ref(n)

\* createError has returned the SYS_VALIDATION_FAILED entity for a definition
\* with problems and the originalError 'x': its original is null
C22_Witness ==
    /\ Called
    /\ ~NormalPath
    /\ last.orig = Str(InputText.x)
    /\ ReturnedEntity
    /\ Entity.code = Str(CodesText.SYS_VALIDATION_FAILED)
    /\ Entity.original = Null

(***************************************************************************)
(* C26: every entity that createError or the constructor returns, in       *)
(* strict and in lenient mode and whatever the definition given, has a     *)
(* code that is a non-empty string and a msg that is a non-empty string.   *)
(***************************************************************************)
C26_NonEmptyCodeAndMessage ==
    ((Called \/ Constructed) /\ ReturnedEntity)
    => (NonEmptyString(Entity.code) /\ NonEmptyString(Entity.msg))

(***************************************************************************)
(* C27: strictness is decided at each call. In every step that is a call   *)
(* of createError or of the constructor whose outcome depends on the mode  *)
(* (createError on a definition with problems, or a call on a definition   *)
(* of a string code and message whose required keys the context lacks in   *)
(* part), the call does what a strict call does (createError returns       *)
(* SYS_VALIDATION_FAILED on the problems, the call throws on the missing   *)
(* keys) exactly when options.strict is true, or options.strict is not     *)
(* given and NODE_ENV at that step is not 'production': the options win    *)
(* over the mode, and the mode is the one of the moment of the call,       *)
(* whatever it was at earlier calls.                                       *)
(***************************************************************************)
C27_StrictPerCall ==
    [][(/\ env' = env
        /\ last'.op \in {"createError", "SystemError"}
        /\ (heap' # heap \/ last' # last)
        /\ (\/ Called /\ Problems # << >>
            \/ /\ Called \/ Constructed
               /\ DefinitionString("code")
               /\ DefinitionString("message")
               /\ Missing # << >>)')
       => ((IF Called /\ Problems # << >>
            THEN ReturnedEntity /\ Entity.code = Str(CodesText.SYS_VALIDATION_FAILED)
            ELSE last.out = "threw")'
            <=> IF last'.opts.t = "object" /\ "strict" \in DOMAIN last'.opts.v
                THEN last'.opts.v.strict = Bool(TRUE)
                ELSE env # "production")]_vars

\* A strict call, then a lenient one: the first entity on the heap is a
\* SYS_VALIDATION_FAILED made under another mode than the one of the last
\* call, a createError without options on a definition with problems, made
\* in production, which returned an entity of that definition
C27_Witness ==
    /\ Len(heap) = 2
    /\ Prop(heap[1], "code") = Str(CodesText.SYS_VALIDATION_FAILED)
    /\ Called
    /\ last.def = InvalidCode
    /\ last.opts = Undefined
    /\ env = "production"
    /\ last.env = "production"
    /\ ReturnedEntity
    /\ last.val = Ref(2)
    /\ Entity.code = InvalidCode.v.code

(***************************************************************************)
(* errors.js:340-357, SystemError.format, on the SystemError object o of   *)
(* heap h.                                                                 *)
(***************************************************************************)
RECURSIVE formatEveryCause(_, _)
\* A format that goes on to the cause of the cause, and so on down the chain
formatEveryCause(h, o) ==
    LET original == Prop(o, "original")
        head == TemplateText(Prop(o, "name")) \o ErrorsText.FormatOpen
                    \o TemplateText(Prop(o, "code")) \o ErrorsText.FormatClose
                    \o TemplateText(Prop(o, "message"))
    IN  IF ~IsError(original) THEN head
        ELSE head \o ErrorsText.FormatCausedBy
                \o (IF h[original.v].cls = "SystemError"
                    THEN formatEveryCause(h, h[original.v])
                    ELSE TemplateText(Prop(h[original.v], "message")))

format(h, o) ==
    LET original == Prop(o, "original")
        result1 == TemplateText(Prop(o, "name")) \o ErrorsText.FormatOpen
                       \o TemplateText(Prop(o, "code")) \o ErrorsText.FormatClose
                       \o TemplateText(Prop(o, "message"))
        result2 == IF Truthy(Prop(o, "docs"))
                   THEN result1 \o ErrorsText.FormatDocs \o TemplateText(Prop(o, "docs"))
                   ELSE result1
    IN  IF Truthy(original)
        THEN result2 \o ErrorsText.FormatCausedBy
                \o TemplateText(OrElse(Prop(h[original.v], "name"), Str(ErrorsText.Error)))
                \o ErrorsText.ColonSpace
                \o TemplateText(Prop(h[original.v], "message"))
        ELSE result2

(***************************************************************************)
(* The entities at work: chains of up to MaxDepth errors are built, then   *)
(* formatted, serialized and checked.                                      *)
(***************************************************************************)
\* The number of error objects, and so the longest chain, of one behaviour
MaxDepth == 3

\* The definitions and contexts of the entities: those of the chains, and a
\* definition of a code and a message only
EntityArguments == ChainArguments \cup {<<InvalidCode, Undefined>>}

InitEntity ==
    /\ heap = << >>
    /\ env = "development"
    /\ last = NoCall

\* The program goes on while no call threw and the heap has room
Building == last.out # "threw" /\ Len(heap) < MaxDepth

\* new TypeError(message), new Error(message)
NewCause(cls, message) ==
    /\ Building
    /\ heap' = Append(heap, ErrorObject(cls, message))
    /\ last' = [NoCall EXCEPT !.op = cls, !.val = Ref(Len(heap) + 1)]
    /\ UNCHANGED env

\* new SystemError(definition, context, originalError)
ConstructEntity(definition, context, originalError) ==
    LET r == New(heap, heap,
                 SystemError(definition, context, originalError, Undefined, env))
    IN  /\ Building
        /\ heap' = r.heap
        /\ last' = [op |-> "SystemError", def |-> definition, ctx |-> context,
                    orig |-> originalError, opts |-> Undefined, env |-> env,
                    out |-> r.out, val |-> r.val]
        /\ UNCHANGED env

\* error.format() on the entity at heap index i
Format(i) ==
    /\ heap[i].cls = "SystemError"
    /\ last' = [NoCall EXCEPT !.op = "format", !.def = Ref(i),
                              !.val = Str(format(heap, heap[i]))]
    /\ UNCHANGED <<heap, env>>

\* error.toJSON() on the entity at heap index i
ToJSON(i) ==
    /\ heap[i].cls = "SystemError"
    /\ last' = [NoCall EXCEPT !.op = "toJSON", !.def = Ref(i),
                              !.val = toJSON(heap, heap[i])]
    /\ UNCHANGED <<heap, env>>

\* The expected chains the entities are checked against: codes that the
\* chains built here have from the top down, a code alone, a type alone
EntityExpected ==
    {Arr(<<Level(Str(CodesText.SYS_VALIDATION_FAILED), Undefined, Undefined),
           Level(Str(CodesText.SYS_UNEXPECTED), Undefined, Undefined)>>),
     Arr(<<Level(Str(CodesText.SYS_INVALID_ARGUMENT), Undefined, Undefined)>>),
     Arr(<<Level(Undefined, Str(ErrorsText.TypeError), Undefined)>>)}

\* createError(definition, context, heap[i]): the error at heap index i is
\* wrapped as the cause of a new entity
WrapEntity(definition, context, i) ==
    LET r == createError(heap, env, definition, context, Ref(i), Undefined)
    IN  /\ Building
        /\ heap' = r.heap
        /\ last' = [op |-> "createError", def |-> definition, ctx |-> context,
                    orig |-> Ref(i), opts |-> Undefined, env |-> env,
                    out |-> r.out, val |-> r.val]
        /\ UNCHANGED env

\* checkErrorChain(heap[i], expectedChain)
CheckEntityChain(i, expectedChain) ==
    LET r == checkErrorChain(heap, Ref(i), expectedChain)
    IN  /\ last' = [NoCall EXCEPT !.op = "checkErrorChain", !.def = Ref(i),
                                  !.ctx = expectedChain, !.out = r.out, !.val = r.val]
        /\ UNCHANGED <<heap, env>>

NextEntity ==
    \/ \E e \in PlainErrors : NewCause(e[1], e[2])
    \/ \E a \in EntityArguments, o \in {Undefined} \cup {Ref(i) : i \in 1..Len(heap)} :
            ConstructEntity(a[1], a[2], o)
    \/ \E a \in EntityArguments, i \in 1..Len(heap) : WrapEntity(a[1], a[2], i)
    \/ \E i \in 1..Len(heap) : Format(i)
    \/ \E i \in 1..Len(heap) : ToJSON(i)
    \/ \E i \in 1..Len(heap), expectedChain \in EntityExpected :
            CheckEntityChain(i, expectedChain)

SpecEntity == InitEntity /\ [][NextEntity]_vars

(***************************************************************************)
(* What the properties of format and toJSON read off a state.              *)
(***************************************************************************)
\* The last call was error.format()
Formatted == last.op = "format"

\* The entity the last call was made on, and its cause
Subject == heap[last.def.v]

Cause == heap[Subject.props.original.v]

\* The line of format for the docs of entity properties e; none without docs
DocsLine(e) ==
    IF e.docs.t = "string" /\ e.docs.v # << >>
    THEN ErrorsText.FormatDocs \o e.docs.v
    ELSE << >>

\* The line of format for the cause of entity properties e on heap h; none
\* without a cause
CauseLine(h, e) ==
    IF e.original = Null THEN << >>
    ELSE ErrorsText.FormatCausedBy \o TypeNames[h[e.original.v].cls]
            \o ErrorsText.ColonSpace \o h[e.original.v].props.message.v

Serialized == last.op = "toJSON"

RECURSIVE Nested(_, _)
\* The record found in record r after n steps through the field original
Nested(r, n) == IF n = 0 THEN r ELSE Nested(r.v.original, n - 1)

Registry ==
    UNION {{ERROR_CODES.v[ns].v[name] : name \in DOMAIN ERROR_CODES.v[ns].v} :
           ns \in DOMAIN ERROR_CODES.v}

\* The names registered, each a namespace and a name in it
RegistryNames ==
    UNION {{<<ns, name>> : name \in DOMAIN ERROR_CODES.v[ns].v} :
           ns \in DOMAIN ERROR_CODES.v}

\* The keys of the placeholders of the message of definition d
PlaceholderKeys(d) ==
    {Placeholders(d.v.message.v)[i].key : i \in 1..Len(Placeholders(d.v.message.v))}

(***************************************************************************)
(* C25: in ERROR_CODES no two definitions have the same code, every code   *)
(* matches /^[A-Z][A-Z0-9_]*$/, every message is a string, and every       *)
(* placeholder of the message of a definition that has contextKeys is      *)
(* listed in them; validateDefinition finds no problem in any of them.     *)
(***************************************************************************)
C25_Registry ==
    /\ \A a, b \in RegistryNames :
        ERROR_CODES.v[a[1]].v[a[2]].v.code = ERROR_CODES.v[b[1]].v[b[2]].v.code => a = b
    /\ \A d \in Registry :
        /\ d.v.code.t = "string"
        /\ CodePattern(d.v.code)
        /\ d.v.message.t = "string"
        /\ "contextKeys" \in DOMAIN d.v => PlaceholderKeys(d) \subseteq
                {d.v.contextKeys.v[i].v : i \in 1..Len(d.v.contextKeys.v)}
    /\ (last.op = "validateDefinition" /\ last.def \in Registry)
        => last.val = Arr(<< >>)

\* validateDefinition has been called on ERROR_CODES.SYS.VALIDATION_FAILED,
\* whose message has the placeholders reason and problemsText, both listed
C25_Witness ==
    /\ last.op = "validateDefinition"
    /\ last.def = ERROR_CODES.v.SYS.v.VALIDATION_FAILED
    /\ last.val = Arr(<< >>)
    /\ PlaceholderKeys(last.def) = {Spell.reason, Spell.problemsText}
    /\ Cardinality(RegistryNames) = 5

(***************************************************************************)
(* What the property of the lifetime of an entity reads off a state.       *)
(***************************************************************************)
\* The indices of the SystemError objects of heap h
Entities(h) == {i \in 1..Len(h) : h[i].cls = "SystemError"}

(***************************************************************************)
(* C28: a SystemError does not change after its construction. Whatever the *)
(* step (format, toJSON, checkErrorChain, a construction or a createError  *)
(* that wraps it as a cause), every error object of the heap stays in its  *)
(* place with its code, msg, message, subsystem, context, recoverable,     *)
(* docs and original as they were; in every state the message of an        *)
(* entity is its msg rendered against its context, as at construction; and *)
(* the record toJSON() returns is the one of the entity and of the objects *)
(* that existed when it was constructed, so that two calls on one entity,  *)
(* whatever happened in between, return equal records.                     *)
(***************************************************************************)
C28_Immutable ==
    /\ [][/\ Len(heap') >= Len(heap)
          /\ \A i \in 1..Len(heap) :
                /\ heap'[i].cls = heap[i].cls
                /\ \A n \in {"code", "msg", "message", "subsystem", "context",
                          "recoverable", "docs", "original"} \cap DOMAIN heap[i].props :
                      /\ n \in DOMAIN heap'[i].props
                      /\ heap'[i].props[n] = heap[i].props[n]]_vars
    /\ [](\A i \in Entities(heap) :
            heap[i].props.message
                = Str(SystemErrorFormatMessage(heap[i].props.msg, heap[i].props.context)))
    /\ [](last.op = "toJSON"
            => last.val = toJSON(SubSeq(heap, 1, last.def.v), Subject))

\* toJSON() has been called on the first entity after it was made the cause
\* of a second entity, itself the cause of a third
C28_Witness ==
    /\ last.op = "toJSON"
    /\ last.def = Ref(1)
    /\ Len(heap) = 3
    /\ Entities(heap) = {1, 2, 3}
    /\ heap[2].props.original = Ref(1)
    /\ heap[3].props.original = Ref(2)
    /\ heap[1].props.code = Str(CodesText.SYS_INVALID_ARGUMENT)
    /\ last.val.v.code = Str(CodesText.SYS_INVALID_ARGUMENT)
    /\ last.val.v.original = Undefined

(***************************************************************************)
(* Chains with a cycle.  The constructor sets this.original as an ordinary *)
(* property (errors.js:309) and nothing freezes the object, so a caller    *)
(* can assign it afterwards; this is the one way to a chain that comes     *)
(* back to itself.  The engine ends a recursion that does not end by       *)
(* itself with a RangeError when the call stack is full.                   *)
(***************************************************************************)
\* The number of nested calls the call stack of the engine has room for
StackLimit == 6

\* A toJSON that writes the cause by its basic fields, whatever the cause is
toJSONOnStackInline(h, o, room) ==
    IF room = 0
    THEN [out |-> "threw", val |-> Exc(ErrorObject("Error", RuntimeText.MaximumCallStack)),
          calls |-> 0]
    ELSE [out |-> "returned", val |-> toJSONShallow(h, o), calls |-> 1]

RECURSIVE toJSONOnStack(_, _, _)
\* errors.js:367-395, SystemError.toJSON on the SystemError object o, with
\* room for `room` nested calls: the record or the RangeError, and the
\* number of calls of toJSON begun
toJSONOnStack(h, o, room) ==
    IF room = 0
    THEN [out |-> "threw",
          val |-> Exc([cls |-> "RangeError",
                       props |-> [name |-> Str(RuntimeText.RangeError),
                                  message |-> Str(RuntimeText.MaximumCallStack),
                                  stack |-> Str(RuntimeText.StackTrace)]]),
          calls |-> 0]
    ELSE LET original == Prop(o, "original")
             inner ==
                IF ~IsError(original)
                THEN [out |-> "returned", val |-> Undefined, calls |-> 0]
                ELSE IF h[original.v].cls = "SystemError"
                THEN toJSONOnStack(h, h[original.v], room - 1)
                ELSE [out |-> "returned",
                      val |-> Obj([name |-> Prop(h[original.v], "name"),
                                   message |-> Prop(h[original.v], "message"),
                                   stack |-> Prop(h[original.v], "stack")]),
                      calls |-> 0]
         IN  IF inner.out = "threw" THEN [inner EXCEPT !.calls = @ + 1]
             ELSE [out |-> "returned",
                   val |-> Obj([name |-> Prop(o, "name"), code |-> Prop(o, "code"),
                                message |-> Prop(o, "message"), msg |-> Prop(o, "msg"),
                                subsystem |-> Prop(o, "subsystem"),
                                context |-> Prop(o, "context"),
                                recoverable |-> Prop(o, "recoverable"),
                                docs |-> Prop(o, "docs"), stack |-> Prop(o, "stack"),
                                original |-> inner.val]),
                   calls |-> inner.calls + 1]

\* The number of error objects format reads, errors.js:340-357: this, and
\* this.original when there is one
formatLevels(h, o) == IF Truthy(Prop(o, "original")) THEN 2 ELSE 1

RECURSIVE ChainLoopLevels(_, _, _, _)
\* The number of passes of the while loop of errors.js:180-219 from `current`
\* and `index` on
ChainLoopLevels(h, current, index, expectedChain) ==
    IF ~Truthy(current) \/ ~IsArray(expectedChain) \/ index >= Len(expectedChain.v)
    THEN 0
    ELSE IF CheckLevel(h, h[current.v], index, expectedChain.v[index + 1]).out = "threw"
    THEN 1
    ELSE 1 + ChainLoopLevels(h, Prop(h[current.v], "original"), index + 1, expectedChain)

\* error.original = heap[j], assigned by the caller to the entity at index i
SetOriginal(i, j) ==
    /\ heap[i].cls = "SystemError"
    /\ heap' = [heap EXCEPT ![i].props.original = Ref(j)]
    /\ last' = [NoCall EXCEPT !.op = "original", !.def = Ref(i), !.orig = Ref(j)]
    /\ UNCHANGED env

\* error.toJSON() on the entity at heap index i, under the call stack
Serialize(i) ==
    LET r == toJSONOnStack(heap, heap[i], StackLimit)
    IN  /\ heap[i].cls = "SystemError"
        /\ last' = [NoCall EXCEPT !.op = "toJSON", !.def = Ref(i),
                                  !.out = r.out, !.val = r.val]
        /\ UNCHANGED <<heap, env>>

NextWalk ==
    \/ \E e \in PlainErrors : NewCause(e[1], e[2])
    \/ \E a \in EntityArguments, o \in {Undefined} \cup {Ref(i) : i \in 1..Len(heap)} :
            ConstructEntity(a[1], a[2], o)
    \/ \E i, j \in 1..Len(heap) : SetOriginal(i, j)
    \/ \E i \in 1..Len(heap) : Format(i)
    \/ \E i \in 1..Len(heap) : Serialize(i)
    \/ \E i \in 1..Len(heap), expectedChain \in EntityExpected :
            CheckEntityChain(i, expectedChain)

SpecWalk == InitEntity /\ [][NextWalk]_vars

(***************************************************************************)
(* What the properties of the walks read off a state.                      *)
(***************************************************************************)
RECURSIVE Hop(_, _, _)
\* The heap index reached from index i after n original links; 0 when the
\* chain ends before
Hop(h, i, n) ==
    IF n = 0 \/ i = 0 THEN i
    ELSE Hop(h, IF IsError(Prop(h[i], "original")) THEN Prop(h[i], "original").v ELSE 0,
             n - 1)

\* The chain from index i never ends: after as many links as the heap has
\* objects it is still on an object
Cyclic(h, i) == Hop(h, i, Len(h)) # 0

(***************************************************************************)
(* The walks that C29 as stated and C29 as amended have in common.  A      *)
(* construction joins the heap with a cause that is on the heap already,   *)
(* or with none, and leaves the rest alone.  On a chain that ends, toJSON  *)
(* returns the record after one call for each SystemError level, at most   *)
(* as many as the heap has objects.  On a chain with a cycle, toJSON fills *)
(* the call stack, however large, and ends in the RangeError.              *)
(***************************************************************************)
WalksOfToJSON ==
    /\ [][Len(heap') > Len(heap)
            => /\ Len(heap') = Len(heap) + 1
               /\ SubSeq(heap', 1, Len(heap)) = heap
               /\ LET original == Prop(heap'[Len(heap')], "original")
                  IN  IsError(original) => original.v \in 1..Len(heap)]_vars
    /\ [](\A i \in Entities(heap) :
            IF Cyclic(heap, i)
            THEN \A room \in 1..StackLimit :
                    LET r == toJSONOnStack(heap, heap[i], room)
                    IN  /\ r.out = "threw"
                        /\ r.val.v.cls = "RangeError"
                        /\ r.calls = room
            ELSE LET r == toJSONOnStack(heap, heap[i], StackLimit)
                 IN  /\ r.out = "returned"
                     /\ r.val = toJSON(heap, heap[i])
                     /\ r.calls = Cardinality({n \in 0..Len(heap) :
                                        /\ Hop(heap, i, n) # 0
                                        /\ heap[Hop(heap, i, n)].cls = "SystemError"})
                     /\ r.calls <= Len(heap))

C30_FallbackDropsOriginal ==
    /\ (Called /\ AttemptFailed)
        => /\ ReturnedEntity
           /\ Entity.code = Str(CodesText.SYS_UNEXPECTED)
           /\ LET chain == CauseChain(heap, last.val)
              IN  /\ Len(chain) = 2
                  /\ chain[2] = Attempt.val.v
                  /\ chain[2].cls # "SystemError"
                  /\ Prop(chain[2], "original") = Undefined
           /\ IsError(last.orig)
                => /\ Entity.original # last.orig
                   /\ \A n \in DOMAIN Entity.context.v : Entity.context.v[n] # last.orig
    /\ (Called /\ ~AttemptFailed /\ IsError(last.orig))
        => /\ ReturnedEntity
           /\ Entity.original = last.orig
====
